---- MODULE Spec2Model ----
(***************************************************************************)
(* Shipment lifecycle and payment ledger of the logistics backend.         *)
(*                                                                         *)
(* Each route handler is one atomic action: the middleware chain (protect, *)
(* checkPermission, express-validator), the handler body, the model        *)
(* methods it calls and the single document save.  Stored documents are    *)
(* the variables; the response of the last request is kept in `response`   *)
(* so that properties can speak about accepted and rejected requests.      *)
(*                                                                         *)
(* Abstractions: money is counted in whole units, weights in tenths of a   *)
(* kilogram, a date is the position of the timeline entry written by the   *)
(* same save (0 = not set), generated identifiers are the document keys.   *)
(* Fields no handler below reads (addresses, notes, locations, documents)  *)
(* are left out of the documents, and a timeline entry keeps its status    *)
(* only (not its timestamp, notes and actor).                              *)
(*                                                                         *)
(* Besides the two ledgers (Spec, SpecPay) the module holds the login      *)
(* handler with its clock (SpecLogin), the route guard met by deactivated  *)
(* accounts (SpecGuard), the permission check on its own (SpecPerm), and   *)
(* the handlers split at their awaits, with several requests in flight     *)
(* (SpecConcStatus, SpecConcAssign, SpecConcPay).                          *)
(***************************************************************************)
EXTENDS Integers, Sequences, FiniteSets, TLC

\* ---------------------------------------------------------------- bounds
MaxTimeline == 6
MaxPayTimeline == 3
MaxRefunds == 2
MaxAttempts == 6
MaxLogins == 6
MaxClock == 3
MaxPermissions == 2
MaxInflight == 3

\* ------------------------------------------------------ identity store
Null == "null"

DriverIds == {"d1", "d2", "d3", "d4"}
ClientIds == {"c1"}
AdminIds == {"a1", "a2"}
ShipmentIds == {"s1"}
PaymentIds == {"p1", "p2"}

\* ids a request may name that resolve to no stored document
UnknownDriver == "d9"
UnknownShipment == "s9"

DriverStatuses == {"pending", "approved", "rejected", "suspended"}
KycStatuses == {"pending", "in_review", "approved", "rejected"}

\* the registered drivers: two assignable, one not yet approved, one with
\* its KYC review still open
InitialDrivers ==
  [d \in DriverIds |->
     CASE d = "d3" -> [status |-> "pending", kycStatus |-> "approved"]
       [] d = "d4" -> [status |-> "approved", kycStatus |-> "in_review"]
       [] OTHER    -> [status |-> "approved", kycStatus |-> "approved"]]

\* the clients the store holds
clients == [c \in ClientIds |-> [status |-> "active"]]

\* the admins the store holds: a super admin and an operator who may update
\* shipments but only read payments
admins ==
  [a \in AdminIds |->
     IF a = "a1"
     THEN [role |-> "super_admin", status |-> "active", permissions |-> <<>>]
     ELSE [role |-> "operator", status |-> "active",
           permissions |-> << [module |-> "shipments", actions |-> {"read", "update"}],
                              [module |-> "payments", actions |-> {"read"}] >>]]

UserTypes == {"driver", "client", "admin"}

UsersOf(userType) ==
  CASE userType = "driver" -> DriverIds
    [] userType = "client" -> ClientIds
    [] userType = "admin"  -> AdminIds

\* the account fields of the clients and admins that requests read or write:
\* the status, and for an admin the login bookkeeping
NewAccount(id) ==
  IF id \in AdminIds
  THEN [status |-> admins[id].status,
        loginAttempts |-> [count |-> 0, lastAttempt |-> 0, lockedUntil |-> 0],
        totalLogins |-> 0, activeSessions |-> <<>>]
  ELSE [status |-> clients[id].status]

InitialAccounts == [id \in AdminIds \cup ClientIds |-> NewAccount(id)]

\* drivers, shipments, payments: the stored documents; accounts: the stored
\* client and admin accounts; now: the clock; requests: the handlers that
\* have read their document and not yet saved it; response: the last answer
VARIABLES drivers, shipments, payments, response, accounts, now, requests

vars == <<drivers, shipments, payments, response, accounts, now, requests>>

\* ------------------------------------------------------------ shipments
ShipmentStatuses ==
  {"pending", "assigned", "picked", "packed", "processing", "in_transit",
   "out_for_delivery", "delivered", "failed", "returned", "cancelled"}

\* body('status').isIn([...]) of the status route: every status but pending
RequestableStatuses == ShipmentStatuses \ {"pending"}

\* a table that lets a pending shipment be picked without an assignment
validTransitionsSkipAssign(from) ==
  CASE from = "pending"          -> {"assigned", "cancelled", "picked"}
    [] from = "assigned"         -> {"picked", "cancelled"}
    [] from = "picked"           -> {"packed", "processing", "failed"}
    [] from = "packed"           -> {"processing", "in_transit"}
    [] from = "processing"       -> {"in_transit", "failed"}
    [] from = "in_transit"       -> {"out_for_delivery", "delivered", "failed"}
    [] from = "out_for_delivery" -> {"delivered", "failed", "returned"}
    [] from = "delivered"        -> {}
    [] from = "failed"           -> {"processing", "cancelled"}
    [] from = "returned"         -> {}
    [] from = "cancelled"        -> {}

\* a table that lets an assigned shipment go to processing without a pickup
validTransitionsSkipPickup(from) ==
  CASE from = "pending"          -> {"assigned", "cancelled"}
    [] from = "assigned"         -> {"picked", "cancelled", "processing"}
    [] from = "picked"           -> {"packed", "processing", "failed"}
    [] from = "packed"           -> {"processing", "in_transit"}
    [] from = "processing"       -> {"in_transit", "failed"}
    [] from = "in_transit"       -> {"out_for_delivery", "delivered", "failed"}
    [] from = "out_for_delivery" -> {"delivered", "failed", "returned"}
    [] from = "delivered"        -> {}
    [] from = "failed"           -> {"processing", "cancelled"}
    [] from = "returned"         -> {}
    [] from = "cancelled"        -> {}

\* a table that lets a failed shipment be picked up again
validTransitionsRepick(from) ==
  CASE from = "pending"          -> {"assigned", "cancelled"}
    [] from = "assigned"         -> {"picked", "cancelled"}
    [] from = "picked"           -> {"packed", "processing", "failed"}
    [] from = "packed"           -> {"processing", "in_transit"}
    [] from = "processing"       -> {"in_transit", "failed"}
    [] from = "in_transit"       -> {"out_for_delivery", "delivered", "failed"}
    [] from = "out_for_delivery" -> {"delivered", "failed", "returned"}
    [] from = "delivered"        -> {}
    [] from = "failed"           -> {"processing", "cancelled", "picked"}
    [] from = "returned"         -> {}
    [] from = "cancelled"        -> {}

\* a table whose cancelled row was copied from the failed row
validTransitionsReopen(from) ==
  CASE from = "pending"          -> {"assigned", "cancelled"}
    [] from = "assigned"         -> {"picked", "cancelled"}
    [] from = "picked"           -> {"packed", "processing", "failed"}
    [] from = "packed"           -> {"processing", "in_transit"}
    [] from = "processing"       -> {"in_transit", "failed"}
    [] from = "in_transit"       -> {"out_for_delivery", "delivered", "failed"}
    [] from = "out_for_delivery" -> {"delivered", "failed", "returned"}
    [] from = "delivered"        -> {}
    [] from = "failed"           -> {"processing", "cancelled"}
    [] from = "returned"         -> {}
    [] from = "cancelled"        -> {"processing", "cancelled"}

validTransitions(from) ==
  CASE from = "pending"          -> {"assigned", "cancelled"}
    [] from = "assigned"         -> {"picked", "cancelled"}
    [] from = "picked"           -> {"packed", "processing", "failed"}
    [] from = "packed"           -> {"processing", "in_transit"}
    [] from = "processing"       -> {"in_transit", "failed"}
    [] from = "in_transit"       -> {"out_for_delivery", "delivered", "failed"}
    [] from = "out_for_delivery" -> {"delivered", "failed", "returned"}
    [] from = "delivered"        -> {}
    [] from = "failed"           -> {"processing", "cancelled"}
    [] from = "returned"         -> {}
    [] from = "cancelled"        -> {}

Last(seq) == seq[Len(seq)]

\* -------------------------------------------------- access control gateway
InactiveStatuses == {"suspended", "inactive", "terminated"}

UserStatus(userType, user) ==
  CASE userType = "driver" -> drivers[user].status
    [] userType = "client" -> accounts[user].status
    [] userType = "admin"  -> accounts[user].status

\* a guard that does not look at the account's status
protectNoStatusCheck(allowed, userType, user) ==
  IF userType \notin allowed THEN 403
  ELSE 0

\* protect(userTypes): 0 when the request passes, else the status code sent
protect(allowed, userType, user) ==
  IF userType \notin allowed THEN 403
  ELSE IF UserStatus(userType, user) \in InactiveStatuses THEN 401
  ELSE 0

\* adminSchema.methods.hasPermission on an admin document: find() yields the
\* first entry of the module, and only that entry is looked at
PermissionGranted(role, permissions, module, action) ==
  \/ role = "super_admin"
  \/ \E i \in 1..Len(permissions) :
       /\ permissions[i].module = module
       /\ \A j \in 1..(i - 1) : permissions[j].module # module
       /\ action \in permissions[i].actions

hasPermission(admin, module, action) ==
  PermissionGranted(admins[admin].role, admins[admin].permissions, module, action)

\* checkPermission(module, action): 0 when the request passes, else 403
checkPermission(userType, user, module, action) ==
  IF userType # "admin" THEN 403
  ELSE IF ~hasPermission(user, module, action) THEN 403
  ELSE 0

\* ------------------------------------------------------- shipment model
\* an updateStatus that sets the status and forgets the timeline entry
ShipmentUpdateStatusNoEntry(shipment, newStatus) ==
  [shipment EXCEPT
     !.status = newStatus,
     !.actualPickupDate =
        IF newStatus = "picked" THEN Len(shipment.timeline) + 1 ELSE @,
     !.actualDeliveryDate =
        IF newStatus # "picked" /\ newStatus = "delivered"
        THEN Len(shipment.timeline) + 1 ELSE @]

\* an updateStatus that overwrites the last timeline entry instead of pushing
ShipmentUpdateStatusReplaceLast(shipment, newStatus) ==
  [shipment EXCEPT
     !.status = newStatus,
     !.timeline = [@ EXCEPT ![Len(@)] = [status |-> newStatus]],
     !.actualPickupDate =
        IF newStatus = "picked" THEN Len(shipment.timeline) + 1 ELSE @,
     !.actualDeliveryDate =
        IF newStatus # "picked" /\ newStatus = "delivered"
        THEN Len(shipment.timeline) + 1 ELSE @]

\* an updateStatus that stamps a date on delivery only
ShipmentUpdateStatusNoPickupStamp(shipment, newStatus) ==
  [shipment EXCEPT
     !.status = newStatus,
     !.timeline = Append(@, [status |-> newStatus]),
     !.actualDeliveryDate =
        IF newStatus = "delivered" THEN Len(shipment.timeline) + 1 ELSE @]

\* shipmentSchema.methods.updateStatus
ShipmentUpdateStatus(shipment, newStatus) ==
  [shipment EXCEPT
     !.status = newStatus,
     !.timeline = Append(@, [status |-> newStatus]),
     !.actualPickupDate =
        IF newStatus = "picked" THEN Len(shipment.timeline) + 1 ELSE @,
     !.actualDeliveryDate =
        IF newStatus # "picked" /\ newStatus = "delivered"
        THEN Len(shipment.timeline) + 1 ELSE @]

\* shipmentSchema.pre('save') on a new document: the first timeline entry
ShipmentPreSave(shipment) ==
  [shipment EXCEPT
     !.timeline = Append(@, [status |-> "pending"])]

\* Shipment.create: schema defaults, then the pre-save hook
NewShipment(clientId, totalWeight) ==
  ShipmentPreSave([client |-> clientId, driver |-> Null, status |-> "pending",
                   timeline |-> <<>>, totalWeight |-> totalWeight,
                   actualPickupDate |-> 0, actualDeliveryDate |-> 0])

\* ------------------------------------------------------ request inputs
MinQuantity == 1
MinWeight == 1

\* the clock reading of a create request
Now == 2

ValidItems == << [quantity |-> 2, weight |-> 50], [quantity |-> 1, weight |-> 10] >>

Body(items, pickup, delivery) ==
  [items |-> items, pickup |-> pickup, delivery |-> delivery]

\* the request bodies of create-shipment: valid items with a valid pair of
\* dates, with a pickup date in the past, with delivery on the pickup date and
\* with delivery before pickup; then no item, a zero quantity and a zero
\* weight with valid dates
CreateBodies ==
  { Body(ValidItems, 2, 3), Body(ValidItems, 1, 3), Body(ValidItems, 2, 2),
    Body(ValidItems, 3, 2),
    Body(<<>>, 2, 3),
    Body(<< [quantity |-> 0, weight |-> 50] >>, 2, 3),
    Body(<< [quantity |-> 1, weight |-> 0] >>, 2, 3) }

RECURSIVE SumWeightIgnoringQuantity(_)
\* a total that counts every item once
SumWeightIgnoringQuantity(items) ==
  IF items = <<>> THEN 0
  ELSE Last(items).weight
       + SumWeightIgnoringQuantity(SubSeq(items, 1, Len(items) - 1))

RECURSIVE SumWeight(_)
SumWeight(items) ==
  IF items = <<>> THEN 0
  ELSE Last(items).weight * Last(items).quantity
       + SumWeight(SubSeq(items, 1, Len(items) - 1))

ItemsValid(items) ==
  /\ Len(items) >= 1
  /\ \A i \in 1..Len(items) :
       items[i].quantity >= MinQuantity /\ items[i].weight >= MinWeight

\* a handler's result: the status code and message sent, and the document
\* as stored afterwards (doc is the stored one when nothing was saved)
Result(code, message, doc) == [code |-> code, message |-> message, doc |-> doc]

NoDoc == [none |-> TRUE]

Stored(id) == IF id \in DOMAIN shipments THEN shipments[id] ELSE NoDoc

\* a create handler that lets the delivery fall on the pickup date
CreateShipmentResultSameDayDelivery(userType, user, clientIdInBody, items, pickup, delivery, saveOk) ==
  LET guard == protect({"client", "admin"}, userType, user)
      clientId == IF userType = "admin" THEN clientIdInBody ELSE user
  IN  IF guard # 0 THEN Result(guard, "not authorized", NoDoc)
      ELSE IF ~ItemsValid(items) THEN Result(400, "Validation errors", NoDoc)
      ELSE IF pickup < Now
        THEN Result(400, "Pickup date cannot be in the past", NoDoc)
      ELSE IF delivery < pickup
        THEN Result(400, "Delivery date must be after pickup date", NoDoc)
      ELSE IF clientId = Null THEN Result(400, "Client ID is required", NoDoc)
      ELSE IF ~saveOk THEN Result(500, "Server error", NoDoc)
      ELSE Result(201, "Shipment created successfully",
                  NewShipment(clientId, SumWeight(items)))

\* POST /api/shipments
CreateShipmentResult(userType, user, clientIdInBody, items, pickup, delivery, saveOk) ==
  LET guard == protect({"client", "admin"}, userType, user)
      clientId == IF userType = "admin" THEN clientIdInBody ELSE user
  IN  IF guard # 0 THEN Result(guard, "not authorized", NoDoc)
      ELSE IF ~ItemsValid(items) THEN Result(400, "Validation errors", NoDoc)
      ELSE IF pickup < Now
        THEN Result(400, "Pickup date cannot be in the past", NoDoc)
      ELSE IF delivery <= pickup
        THEN Result(400, "Delivery date must be after pickup date", NoDoc)
      ELSE IF clientId = Null THEN Result(400, "Client ID is required", NoDoc)
      ELSE IF ~saveOk THEN Result(500, "Server error", NoDoc)
      ELSE Result(201, "Shipment created successfully",
                  NewShipment(clientId, SumWeight(items)))

\* a status handler whose lookup does not filter on the requesting driver
UpdateShipmentStatusResultAnyDriver(userType, user, id, status, saveOk) ==
  LET guard == protect({"driver", "admin"}, userType, user)
      found == id \in DOMAIN shipments
  IN  IF guard # 0 THEN Result(guard, "not authorized", Stored(id))
      ELSE IF status \notin RequestableStatuses
        THEN Result(400, "Validation errors", Stored(id))
      ELSE IF ~found
        THEN Result(404, "Shipment not found or not authorized", Stored(id))
      ELSE IF status \notin validTransitions(shipments[id].status)
        THEN Result(400, "Cannot transition", Stored(id))
      ELSE IF ~saveOk THEN Result(500, "Server error", Stored(id))
      ELSE Result(200, "Shipment status updated successfully",
                  ShipmentUpdateStatus(shipments[id], status))

\* PUT /api/shipments/:id/status
UpdateShipmentStatusResult(userType, user, id, status, saveOk) ==
  LET guard == protect({"driver", "admin"}, userType, user)
      found == /\ id \in DOMAIN shipments
               /\ userType = "driver" => shipments[id].driver = user
  IN  IF guard # 0 THEN Result(guard, "not authorized", Stored(id))
      ELSE IF status \notin RequestableStatuses
        THEN Result(400, "Validation errors", Stored(id))
      ELSE IF ~found
        THEN Result(404, "Shipment not found or not authorized", Stored(id))
      ELSE IF status \notin validTransitions(shipments[id].status)
        THEN Result(400, "Cannot transition", Stored(id))
      ELSE IF ~saveOk THEN Result(500, "Server error", Stored(id))
      ELSE Result(200, "Shipment status updated successfully",
                  ShipmentUpdateStatus(shipments[id], status))

\* an eligibility check that forgets the KYC status
DriverEligibleStatusOnly(driver) == ~(driver.status # "approved")

DriverEligible(driver) ==
  ~(driver.status # "approved" \/ driver.kycStatus # "approved")

\* an assignment that writes the timeline entry and forgets the driver
AssignedShipmentNoDriver(shipment, driverId) ==
  ShipmentUpdateStatus(shipment, "assigned")

\* the document the assign handler saves
AssignedShipment(shipment, driverId) ==
  ShipmentUpdateStatus([shipment EXCEPT !.driver = driverId], "assigned")

\* a pending check that also lets an assigned shipment be reassigned
AssignableStatusOrAssigned(status) == ~(status # "pending" /\ status # "assigned")

AssignableStatus(status) == ~(status # "pending")

\* PUT /api/shipments/:id/assign
AssignDriverResult(userType, user, id, driverId, saveOk) ==
  LET guard == protect({"admin"}, userType, user)
      perm == checkPermission(userType, user, "shipments", "update")
  IN  IF guard # 0 THEN Result(guard, "not authorized", Stored(id))
      ELSE IF perm # 0 THEN Result(perm, "Permission denied", Stored(id))
      ELSE IF driverId \notin DOMAIN drivers
        THEN Result(404, "Driver not found", Stored(id))
      ELSE IF ~DriverEligible(drivers[driverId])
        THEN Result(400, "Driver is not approved or KYC not completed", Stored(id))
      ELSE IF id \notin DOMAIN shipments
        THEN Result(404, "Shipment not found", Stored(id))
      ELSE IF ~AssignableStatus(shipments[id].status)
        THEN Result(400, "Can only assign drivers to pending shipments", Stored(id))
      ELSE IF ~saveOk THEN Result(500, "Server error", Stored(id))
      ELSE Result(200, "Driver assigned successfully",
                  AssignedShipment(shipments[id], driverId))

\* ------------------------------------------------------------- actions
Response(op, userType, user, id, arg, result) ==
  [op |-> op, userType |-> userType, user |-> user, id |-> id, arg |-> arg,
   code |-> result.code, message |-> result.message]

NoResponse ==
  [op |-> "none", userType |-> Null, user |-> Null, id |-> Null, arg |-> Null,
   code |-> 0, message |-> ""]

\* whether the save of a request succeeds: the store may fail any write, and
\* a request that is rejected before its save has nothing to fail
SaveOutcomes(result) == IF result.code \in {200, 201} THEN BOOLEAN ELSE {TRUE}

\* the key Shipment.create stores the next document under
NextShipmentId == CHOOSE id \in ShipmentIds : id \notin DOMAIN shipments

CreateShipment ==
  \E userType \in UserTypes :
  \E user \in UsersOf(userType) :
  \E clientIdInBody \in IF userType = "admin" THEN ClientIds \cup {Null} ELSE {Null} :
  \E body \in CreateBodies :
  \E saveOk \in SaveOutcomes(CreateShipmentResult(userType, user, clientIdInBody,
                       body.items, body.pickup, body.delivery, TRUE)) :
    LET r == CreateShipmentResult(userType, user, clientIdInBody, body.items,
                                  body.pickup, body.delivery, saveOk)
        arg == [body |-> body, clientId |-> clientIdInBody]
    IN  /\ r.code = 201 => DOMAIN shipments # ShipmentIds
        /\ shipments' =
             IF r.code = 201
             THEN [id \in DOMAIN shipments \cup {NextShipmentId} |->
                     IF id \in DOMAIN shipments THEN shipments[id] ELSE r.doc]
             ELSE shipments
        /\ response' =
             Response("createShipment", userType, user,
                      IF r.code = 201 THEN NextShipmentId ELSE Null, arg, r)
        /\ UNCHANGED <<drivers, payments, accounts, now, requests>>

UpdateShipmentStatus ==
  \E userType \in UserTypes :
  \E user \in UsersOf(userType) :
  \E id \in ShipmentIds :
  \E status \in ShipmentStatuses :
  \E saveOk \in SaveOutcomes(UpdateShipmentStatusResult(userType, user, id, status, TRUE)) :
    LET r == UpdateShipmentStatusResult(userType, user, id, status, saveOk)
    IN  /\ r.code = 200 => Len(shipments[id].timeline) < MaxTimeline
        /\ shipments' = IF r.code = 200 THEN [shipments EXCEPT ![id] = r.doc]
                        ELSE shipments
        /\ response' = Response("updateShipmentStatus", userType, user, id, status, r)
        /\ UNCHANGED <<drivers, payments, accounts, now, requests>>

AssignDriver ==
  \E userType \in UserTypes :
  \E user \in UsersOf(userType) :
  \E id \in ShipmentIds :
  \E driverId \in DriverIds \cup {UnknownDriver} :
  \E saveOk \in SaveOutcomes(AssignDriverResult(userType, user, id, driverId, TRUE)) :
    LET r == AssignDriverResult(userType, user, id, driverId, saveOk)
    IN  /\ r.code = 200 => Len(shipments[id].timeline) < MaxTimeline
        /\ shipments' = IF r.code = 200 THEN [shipments EXCEPT ![id] = r.doc]
                        ELSE shipments
        /\ response' = Response("assignDriver", userType, user, id, driverId, r)
        /\ UNCHANGED <<drivers, payments, accounts, now, requests>>

EmptyStore == [id \in {} |-> NoDoc]

\* ------------------------------------------------------- payment model
PaymentStatuses ==
  {"pending", "processing", "completed", "failed", "cancelled", "refunded",
   "partially_refunded"}

\* body('status').isIn([...]) of the payment status route
SettableStatuses == {"processing", "completed", "failed", "cancelled"}

RECURSIVE SumCompleted(_)
\* .filter(e => e.status === 'completed').reduce((t, e) => t + e.amount, 0)
SumCompleted(entries) ==
  IF entries = <<>> THEN 0
  ELSE (IF Last(entries).status = "completed" THEN Last(entries).amount ELSE 0)
       + SumCompleted(SubSeq(entries, 1, Len(entries) - 1))

\* totalRefunded virtual
totalRefunded(payment) == SumCompleted(payment.refunds)

\* a balance that forgets what was already paid
remainingBalanceIgnoringPaid(payment) ==
  IF payment.status = "completed" THEN 0 ELSE payment.amount.total

\* a balance without the early return for a completed payment
remainingBalanceAlwaysComputed(payment) ==
  LET totalPaid == SumCompleted(payment.partialPayments)
  IN  payment.amount.total - totalPaid

\* remainingBalance virtual
remainingBalance(payment) ==
  LET totalPaid == SumCompleted(payment.partialPayments)
  IN  IF payment.status = "completed" THEN 0
      ELSE payment.amount.total - totalPaid

\* an updateStatus that never stamps paidDate
PaymentUpdateStatusNoPaidDate(payment, newStatus, amount) ==
  [payment EXCEPT
     !.status = newStatus,
     !.timeline = Append(@, [status |-> newStatus, amount |-> amount])]

\* paymentSchema.methods.updateStatus; amount 0 stands for the default null
PaymentUpdateStatus(payment, newStatus, amount) ==
  [payment EXCEPT
     !.status = newStatus,
     !.timeline = Append(@, [status |-> newStatus, amount |-> amount]),
     !.paidDate = IF newStatus = "completed"
                  THEN Len(payment.timeline) + 1 ELSE @]

\* an addRefund whose recompute counts completed refunds only
addRefundCompletedOnly(payment, amount) ==
  LET pushed == [payment EXCEPT
                   !.refunds = Append(@, [amount |-> amount, status |-> "pending"])]
      total == totalRefunded(pushed)
  IN  IF total >= pushed.amount.total
      THEN [pushed EXCEPT !.status = "refunded"]
      ELSE IF total > 0
      THEN [pushed EXCEPT !.status = "partially_refunded"]
      ELSE pushed

\* paymentSchema.methods.addRefund
addRefund(payment, amount) ==
  LET pushed == [payment EXCEPT
                   !.refunds = Append(@, [amount |-> amount, status |-> "pending"])]
      total == totalRefunded(pushed) + amount
  IN  IF total >= pushed.amount.total
      THEN [pushed EXCEPT !.status = "refunded"]
      ELSE IF total > 0
      THEN [pushed EXCEPT !.status = "partially_refunded"]
      ELSE pushed

\* paymentSchema.pre('save'): the derived total, and on a new document the
\* first timeline entry
PaymentPreSave(payment, isNew) ==
  LET a == payment.amount
      derived == IF a.total = 0
                 THEN [payment EXCEPT !.amount.total = a.subtotal + a.tax - a.discount]
                 ELSE payment
  IN  IF isNew
      THEN [derived EXCEPT !.timeline = Append(@, [status |-> "pending", amount |-> 0])]
      ELSE derived

\* the min validators of the amount paths of the schema
AmountValid(amount) ==
  /\ amount.subtotal >= 0
  /\ amount.tax >= 0
  /\ amount.discount >= 0
  /\ amount.total >= 0

\* Payment.create: schema defaults, then the pre-save hook
NewPayment(clientId, shipmentId, amount) ==
  PaymentPreSave([client |-> clientId, shipment |-> shipmentId, amount |-> amount,
                  status |-> "pending", timeline |-> <<>>, paidDate |-> 0,
                  refunds |-> <<>>, partialPayments |-> <<>>], TRUE)

Amount(subtotal, tax, discount, total) ==
  [subtotal |-> subtotal, tax |-> tax, discount |-> discount, total |-> total]

\* the amounts of create-payment: a supplied total of 2, a total left to be
\* derived (1), one derived below zero, and a negative subtotal
AmountInputs ==
  { Amount(2, 0, 0, 2), Amount(1, 1, 1, 0), Amount(0, 0, 1, 0),
    Amount(0 - 1, 0, 0, 1) }

\* the amounts of a refund or partial-payment request: below the validator's
\* minimum, within the largest total, and above it
MinAmount == 1
RequestAmounts == {0, 1, 2, 3}

\* the payment the status, refund and partial-payment requests address (not
\* found until it is created)
TargetPaymentIds == {"p1"}

StoredPayment(id) == IF id \in DOMAIN payments THEN payments[id] ELSE NoDoc

\* a create handler without the lookup of an existing payment
CreatePaymentResultNoExistingCheck(userType, user, shipmentId, amount, saveOk) ==
  LET guard == protect({"admin"}, userType, user)
      perm == checkPermission(userType, user, "payments", "create")
  IN  IF guard # 0 THEN Result(guard, "not authorized", NoDoc)
      ELSE IF perm # 0 THEN Result(perm, "Permission denied", NoDoc)
      ELSE IF amount.subtotal < 0 \/ amount.total < 0
        THEN Result(400, "Validation errors", NoDoc)
      ELSE IF shipmentId \notin DOMAIN shipments
        THEN Result(404, "Shipment not found", NoDoc)
      ELSE IF ~AmountValid(NewPayment(shipments[shipmentId].client, shipmentId,
                                      amount).amount)
        THEN Result(500, "Server error", NoDoc)
      ELSE IF ~saveOk THEN Result(500, "Server error", NoDoc)
      ELSE Result(201, "Payment created successfully",
                  NewPayment(shipments[shipmentId].client, shipmentId, amount))

\* POST /api/payments
CreatePaymentResult(userType, user, shipmentId, amount, saveOk) ==
  LET guard == protect({"admin"}, userType, user)
      perm == checkPermission(userType, user, "payments", "create")
  IN  IF guard # 0 THEN Result(guard, "not authorized", NoDoc)
      ELSE IF perm # 0 THEN Result(perm, "Permission denied", NoDoc)
      ELSE IF amount.subtotal < 0 \/ amount.total < 0
        THEN Result(400, "Validation errors", NoDoc)
      ELSE IF shipmentId \notin DOMAIN shipments
        THEN Result(404, "Shipment not found", NoDoc)
      ELSE IF \E p \in DOMAIN payments : payments[p].shipment = shipmentId
        THEN Result(400, "Payment already exists for this shipment", NoDoc)
      ELSE IF ~AmountValid(NewPayment(shipments[shipmentId].client, shipmentId,
                                      amount).amount)
        THEN Result(500, "Server error", NoDoc)
      ELSE IF ~saveOk THEN Result(500, "Server error", NoDoc)
      ELSE Result(201, "Payment created successfully",
                  NewPayment(shipments[shipmentId].client, shipmentId, amount))

\* PUT /api/payments/:id/status
UpdatePaymentStatusResult(userType, user, id, status, saveOk) ==
  LET guard == protect({"admin"}, userType, user)
      perm == checkPermission(userType, user, "payments", "update")
  IN  IF guard # 0 THEN Result(guard, "not authorized", StoredPayment(id))
      ELSE IF perm # 0 THEN Result(perm, "Permission denied", StoredPayment(id))
      ELSE IF status \notin SettableStatuses
        THEN Result(400, "Validation errors", StoredPayment(id))
      ELSE IF id \notin DOMAIN payments
        THEN Result(404, "Payment not found", StoredPayment(id))
      ELSE IF ~saveOk THEN Result(500, "Server error", StoredPayment(id))
      ELSE Result(200, "Payment status updated successfully",
                  PaymentUpdateStatus(payments[id], status, 0))

\* a refund check that lets any amount through
RefundExceedsNever(payment, amount) == FALSE

\* the availability check of the refund handler
RefundExceeds(payment, amount) ==
  amount > (payment.amount.total - totalRefunded(payment))

\* a refund handler without the check of the payment's status
RefundResultNoStatusCheck(userType, user, id, amount, saveOk) ==
  LET guard == protect({"admin"}, userType, user)
      perm == checkPermission(userType, user, "payments", "update")
  IN  IF guard # 0 THEN Result(guard, "not authorized", StoredPayment(id))
      ELSE IF perm # 0 THEN Result(perm, "Permission denied", StoredPayment(id))
      ELSE IF amount < MinAmount
        THEN Result(400, "Validation errors", StoredPayment(id))
      ELSE IF id \notin DOMAIN payments
        THEN Result(404, "Payment not found", StoredPayment(id))
      ELSE IF RefundExceeds(payments[id], amount)
        THEN Result(400, "Refund amount exceeds available balance", StoredPayment(id))
      ELSE IF ~saveOk THEN Result(500, "Server error", StoredPayment(id))
      ELSE Result(200, "Refund processed successfully",
                  addRefund(payments[id], amount))

\* POST /api/payments/:id/refund
RefundResult(userType, user, id, amount, saveOk) ==
  LET guard == protect({"admin"}, userType, user)
      perm == checkPermission(userType, user, "payments", "update")
  IN  IF guard # 0 THEN Result(guard, "not authorized", StoredPayment(id))
      ELSE IF perm # 0 THEN Result(perm, "Permission denied", StoredPayment(id))
      ELSE IF amount < MinAmount
        THEN Result(400, "Validation errors", StoredPayment(id))
      ELSE IF id \notin DOMAIN payments
        THEN Result(404, "Payment not found", StoredPayment(id))
      ELSE IF payments[id].status # "completed"
        THEN Result(400, "Can only refund completed payments", StoredPayment(id))
      ELSE IF RefundExceeds(payments[id], amount)
        THEN Result(400, "Refund amount exceeds available balance", StoredPayment(id))
      ELSE IF ~saveOk THEN Result(500, "Server error", StoredPayment(id))
      ELSE Result(200, "Refund processed successfully",
                  addRefund(payments[id], amount))

\* a partial payment that never completes the payment
PartialPaidAlwaysProcessing(payment, amount) ==
  LET pushed == [payment EXCEPT
                   !.partialPayments =
                      Append(@, [amount |-> amount, status |-> "completed"])]
  IN  PaymentUpdateStatus(pushed, "processing", amount)

\* the document the partial-payment handler saves
PartialPaid(payment, amount) ==
  LET pushed == [payment EXCEPT
                   !.partialPayments =
                      Append(@, [amount |-> amount, status |-> "completed"])]
      newRemainingBalance == remainingBalance(payment) - amount
  IN  IF newRemainingBalance <= 0
      THEN PaymentUpdateStatus(pushed, "completed", 0)
      ELSE PaymentUpdateStatus(pushed, "processing", amount)

\* a partial-payment handler that takes pending and processing payments only
PartialPaymentResultOpenOnly(userType, user, id, amount, saveOk) ==
  LET guard == protect({"admin"}, userType, user)
      perm == checkPermission(userType, user, "payments", "update")
  IN  IF guard # 0 THEN Result(guard, "not authorized", StoredPayment(id))
      ELSE IF perm # 0 THEN Result(perm, "Permission denied", StoredPayment(id))
      ELSE IF amount < MinAmount
        THEN Result(400, "Validation errors", StoredPayment(id))
      ELSE IF id \notin DOMAIN payments
        THEN Result(404, "Payment not found", StoredPayment(id))
      ELSE IF payments[id].status \notin {"pending", "processing"}
        THEN Result(400, "Payment is not open", StoredPayment(id))
      ELSE IF amount > remainingBalance(payments[id])
        THEN Result(400, "Payment amount exceeds remaining balance", StoredPayment(id))
      ELSE IF ~saveOk THEN Result(500, "Server error", StoredPayment(id))
      ELSE Result(200, "Partial payment recorded successfully",
                  PartialPaid(payments[id], amount))

\* POST /api/payments/:id/partial
PartialPaymentResult(userType, user, id, amount, saveOk) ==
  LET guard == protect({"admin"}, userType, user)
      perm == checkPermission(userType, user, "payments", "update")
  IN  IF guard # 0 THEN Result(guard, "not authorized", StoredPayment(id))
      ELSE IF perm # 0 THEN Result(perm, "Permission denied", StoredPayment(id))
      ELSE IF amount < MinAmount
        THEN Result(400, "Validation errors", StoredPayment(id))
      ELSE IF id \notin DOMAIN payments
        THEN Result(404, "Payment not found", StoredPayment(id))
      ELSE IF amount > remainingBalance(payments[id])
        THEN Result(400, "Payment amount exceeds remaining balance", StoredPayment(id))
      ELSE IF ~saveOk THEN Result(500, "Server error", StoredPayment(id))
      ELSE Result(200, "Partial payment recorded successfully",
                  PartialPaid(payments[id], amount))

\* the principals that call the payment routes: the admins, and the client
\* for the principals of another type (the guard admits admins only)
PaymentUsersOf(userType) == IF userType = "driver" THEN {} ELSE UsersOf(userType)

\* the key Payment.create stores the next document under
NextPaymentId == CHOOSE id \in PaymentIds : id \notin DOMAIN payments

CreatePayment ==
  \E userType \in UserTypes :
  \E user \in PaymentUsersOf(userType) :
  \E shipmentId \in ShipmentIds \cup {UnknownShipment} :
  \E amount \in AmountInputs :
  \E saveOk \in SaveOutcomes(CreatePaymentResult(userType, user, shipmentId, amount, TRUE)) :
    LET r == CreatePaymentResult(userType, user, shipmentId, amount, saveOk)
    IN  /\ r.code = 201 => DOMAIN payments # PaymentIds
        /\ payments' =
             IF r.code = 201
             THEN [id \in DOMAIN payments \cup {NextPaymentId} |->
                     IF id \in DOMAIN payments THEN payments[id] ELSE r.doc]
             ELSE payments
        /\ response' =
             Response("createPayment", userType, user,
                      IF r.code = 201 THEN NextPaymentId ELSE Null,
                      [shipmentId |-> shipmentId, amount |-> amount], r)
        /\ UNCHANGED <<drivers, shipments, accounts, now, requests>>

UpdatePaymentStatus ==
  \E userType \in UserTypes :
  \E user \in PaymentUsersOf(userType) :
  \E id \in TargetPaymentIds :
  \E status \in PaymentStatuses :
  \E saveOk \in SaveOutcomes(UpdatePaymentStatusResult(userType, user, id, status, TRUE)) :
    LET r == UpdatePaymentStatusResult(userType, user, id, status, saveOk)
    IN  /\ r.code = 200 => Len(payments[id].timeline) < MaxPayTimeline
        /\ payments' = IF r.code = 200 THEN [payments EXCEPT ![id] = r.doc]
                       ELSE payments
        /\ response' = Response("updatePaymentStatus", userType, user, id, status, r)
        /\ UNCHANGED <<drivers, shipments, accounts, now, requests>>

Refund ==
  \E userType \in UserTypes :
  \E user \in PaymentUsersOf(userType) :
  \E id \in TargetPaymentIds :
  \E amount \in RequestAmounts :
  \E saveOk \in SaveOutcomes(RefundResult(userType, user, id, amount, TRUE)) :
    LET r == RefundResult(userType, user, id, amount, saveOk)
    IN  /\ r.code = 200 => Len(payments[id].refunds) < MaxRefunds
        /\ payments' = IF r.code = 200 THEN [payments EXCEPT ![id] = r.doc]
                       ELSE payments
        /\ response' = Response("refund", userType, user, id, amount, r)
        /\ UNCHANGED <<drivers, shipments, accounts, now, requests>>

PartialPayment ==
  \E userType \in UserTypes :
  \E user \in PaymentUsersOf(userType) :
  \E id \in TargetPaymentIds :
  \E amount \in RequestAmounts :
  \E saveOk \in SaveOutcomes(PartialPaymentResult(userType, user, id, amount, TRUE)) :
    LET r == PartialPaymentResult(userType, user, id, amount, saveOk)
    IN  /\ r.code = 200 => Len(payments[id].timeline) < MaxPayTimeline
        /\ payments' = IF r.code = 200 THEN [payments EXCEPT ![id] = r.doc]
                       ELSE payments
        /\ response' = Response("partialPayment", userType, user, id, amount, r)
        /\ UNCHANGED <<drivers, shipments, accounts, now, requests>>

\* ---------------------------------------------------------------- login
\* the clock counts quarters of an hour: the lock of 30 * 60 * 1000 ms is 2
LockDuration == 2
LockThreshold == 5
MaxSessions == 5

\* an email no account is registered under
UnknownEmail == "x9"

\* the accounts login requests address (an account's email is its key)
LoginEmails(userType) ==
  CASE userType = "driver" -> {"d1"}
    [] userType = "client" -> {"c1"}
    [] userType = "admin"  -> {"a1", UnknownEmail}

\* User.findOne({ email }) on the collection of the user type
Registered(userType, email) ==
  CASE userType = "driver" -> email \in DOMAIN drivers
    [] userType = "client" -> email \in ClientIds
    [] userType = "admin"  -> email \in AdminIds

\* isLocked virtual
isLocked(account) ==
  account.loginAttempts.lockedUntil # 0 /\ account.loginAttempts.lockedUntil > now

\* array.slice(-n)
SliceLast(seq, n) ==
  IF Len(seq) > n THEN SubSeq(seq, Len(seq) - n + 1, Len(seq)) ELSE seq

\* a session list that is cut back to its first entries
handleLoginAttemptKeepFirst(account, success) ==
  IF success
  THEN [account EXCEPT
          !.loginAttempts.count = 0,
          !.loginAttempts.lockedUntil = 0,
          !.totalLogins = @ + 1,
          !.activeSessions =
             LET pushed == Append(@, [sessionId |-> account.totalLogins + 1])
             IN  IF Len(pushed) > MaxSessions
                 THEN SubSeq(pushed, 1, MaxSessions) ELSE pushed]
  ELSE [account EXCEPT
          !.loginAttempts.count = @ + 1,
          !.loginAttempts.lastAttempt = now,
          !.loginAttempts.lockedUntil =
             IF account.loginAttempts.count + 1 >= LockThreshold
             THEN now + LockDuration ELSE @]

\* a failure count that starts over once a lock has expired
handleLoginAttemptResetOnExpiry(account, success) ==
  IF success
  THEN [account EXCEPT
          !.loginAttempts.count = 0,
          !.loginAttempts.lockedUntil = 0,
          !.totalLogins = @ + 1,
          !.activeSessions =
             LET pushed == Append(@, [sessionId |-> account.totalLogins + 1])
             IN  IF Len(pushed) > MaxSessions
                 THEN SliceLast(pushed, MaxSessions) ELSE pushed]
  ELSE IF account.loginAttempts.lockedUntil # 0
          /\ account.loginAttempts.lockedUntil <= now
  THEN [account EXCEPT
          !.loginAttempts.count = 1,
          !.loginAttempts.lastAttempt = now,
          !.loginAttempts.lockedUntil = 0]
  ELSE [account EXCEPT
          !.loginAttempts.count = @ + 1,
          !.loginAttempts.lastAttempt = now,
          !.loginAttempts.lockedUntil =
             IF account.loginAttempts.count + 1 >= LockThreshold
             THEN now + LockDuration ELSE @]

\* adminSchema.methods.handleLoginAttempt; a session is identified by the
\* number of the login that opened it
handleLoginAttempt(account, success) ==
  IF success
  THEN [account EXCEPT
          !.loginAttempts.count = 0,
          !.loginAttempts.lockedUntil = 0,
          !.totalLogins = @ + 1,
          !.activeSessions =
             LET pushed == Append(@, [sessionId |-> account.totalLogins + 1])
             IN  IF Len(pushed) > MaxSessions
                 THEN SliceLast(pushed, MaxSessions) ELSE pushed]
  ELSE [account EXCEPT
          !.loginAttempts.count = @ + 1,
          !.loginAttempts.lastAttempt = now,
          !.loginAttempts.lockedUntil =
             IF account.loginAttempts.count + 1 >= LockThreshold
             THEN now + LockDuration ELSE @]

\* whether the login handler reaches a save of the account
LoginSaves(userType, email, passwordOk) ==
  /\ userType = "admin"
  /\ Registered(userType, email)
  /\ \/ ~passwordOk
     \/ /\ UserStatus(userType, email) \notin InactiveStatuses
        /\ ~isLocked(accounts[email])

\* a login handler without the lock check
LoginResultNoLock(userType, email, passwordOk, saveOk) ==
  IF ~Registered(userType, email)
    THEN Result(401, "Invalid credentials", NoDoc)
  ELSE IF ~passwordOk
    THEN IF userType # "admin" THEN Result(401, "Invalid credentials", NoDoc)
         ELSE IF ~saveOk THEN Result(500, "Server error during login", NoDoc)
         ELSE Result(401, "Invalid credentials",
                     handleLoginAttempt(accounts[email], FALSE))
  ELSE IF UserStatus(userType, email) \in InactiveStatuses
    THEN Result(401, "Account is not active", NoDoc)
  ELSE IF userType # "admin" THEN Result(200, "token", NoDoc)
  ELSE IF ~saveOk THEN Result(500, "Server error during login", NoDoc)
  ELSE Result(200, "token", handleLoginAttempt(accounts[email], TRUE))

\* a login handler that looks at the account's status before the password
LoginResultStatusFirst(userType, email, passwordOk, saveOk) ==
  IF ~Registered(userType, email)
    THEN Result(401, "Invalid credentials", NoDoc)
  ELSE IF UserStatus(userType, email) \in InactiveStatuses
    THEN Result(401, "Account is not active", NoDoc)
  ELSE IF ~passwordOk
    THEN IF userType # "admin" THEN Result(401, "Invalid credentials", NoDoc)
         ELSE IF ~saveOk THEN Result(500, "Server error during login", NoDoc)
         ELSE Result(401, "Invalid credentials",
                     handleLoginAttempt(accounts[email], FALSE))
  ELSE IF userType = "admin" /\ isLocked(accounts[email])
    THEN Result(401, "Account is temporarily locked", NoDoc)
  ELSE IF userType # "admin" THEN Result(200, "token", NoDoc)
  ELSE IF ~saveOk THEN Result(500, "Server error during login", NoDoc)
  ELSE Result(200, "token", handleLoginAttempt(accounts[email], TRUE))

\* POST /api/auth/login; doc is the admin account as saved, NoDoc when the
\* handler saves nothing
LoginResult(userType, email, passwordOk, saveOk) ==
  IF ~Registered(userType, email)
    THEN Result(401, "Invalid credentials", NoDoc)
  ELSE IF ~passwordOk
    THEN IF userType # "admin" THEN Result(401, "Invalid credentials", NoDoc)
         ELSE IF ~saveOk THEN Result(500, "Server error during login", NoDoc)
         ELSE Result(401, "Invalid credentials",
                     handleLoginAttempt(accounts[email], FALSE))
  ELSE IF UserStatus(userType, email) \in InactiveStatuses
    THEN Result(401, "Account is not active", NoDoc)
  ELSE IF userType = "admin" /\ isLocked(accounts[email])
    THEN Result(401, "Account is temporarily locked", NoDoc)
  ELSE IF userType # "admin" THEN Result(200, "token", NoDoc)
  ELSE IF ~saveOk THEN Result(500, "Server error during login", NoDoc)
  ELSE Result(200, "token", handleLoginAttempt(accounts[email], TRUE))

Login ==
  \E userType \in UserTypes :
  \E email \in LoginEmails(userType) :
  \E passwordOk \in BOOLEAN :
  \E saveOk \in IF LoginSaves(userType, email, passwordOk) THEN BOOLEAN ELSE {TRUE} :
    LET r == LoginResult(userType, email, passwordOk, saveOk)
    IN  /\ r.doc # NoDoc =>
              /\ r.doc.loginAttempts.count <= MaxAttempts
              /\ r.doc.totalLogins <= MaxLogins
        /\ accounts' = IF r.doc # NoDoc THEN [accounts EXCEPT ![email] = r.doc]
                       ELSE accounts
        /\ response' = Response("login", userType, email, Null, passwordOk, r)
        /\ UNCHANGED <<drivers, shipments, payments, now, requests>>

\* time passes
Tick ==
  /\ now < MaxClock
  /\ now' = now + 1
  /\ UNCHANGED <<drivers, shipments, payments, response, accounts, requests>>

\* the account states a login can meet: all active; the admin inactive and
\* the others suspended; the admin suspended and the client inactive; the
\* admin terminated and the driver suspended
LoginConfigs ==
  { [admin |-> "active", client |-> "active", driver |-> "approved"],
    [admin |-> "inactive", client |-> "suspended", driver |-> "suspended"],
    [admin |-> "suspended", client |-> "inactive", driver |-> "approved"],
    [admin |-> "terminated", client |-> "active", driver |-> "suspended"] }

InitLogin ==
  \E config \in LoginConfigs :
    /\ drivers = [InitialDrivers EXCEPT !["d1"].status = config.driver]
    /\ shipments = EmptyStore
    /\ payments = EmptyStore
    /\ response = NoResponse
    /\ accounts = [InitialAccounts EXCEPT !["a1"].status = config.admin,
                                          !["c1"].status = config.client]
    /\ now = 0
    /\ requests = EmptyStore

NextLogin ==
  \/ Login
  \/ Tick

SpecLogin == InitLogin /\ [][NextLogin]_vars

\* ------------------------------------------------- concurrent requests
\* A handler awaits twice: the find that reads its document and the save that
\* writes it; what lies between runs without interruption.  A request whose
\* check passed is held in `requests` with the document as read and as
\* modified in memory until the store applies its save.  save() of a loaded
\* document writes the modified paths only: a $set of each changed field and
\* a $push of the entries pushed onto each array, with no version check.
RequestIds == {"r1", "r2", "r3", "r4"}

\* the admin whose token the concurrent requests carry
ConcAdmin == "a1"

\* the statuses and the drivers the concurrent requests name, and the amounts
ConcStatuses == {"picked", "cancelled", "packed"}
ConcDrivers == {"d1", "d2", "d3"}
ConcAmounts == {1, 2}

NextRequestId == CHOOSE rid \in RequestIds : rid \notin DOMAIN requests

Inflight(op, id, arg, read, modified) ==
  [op |-> op, userType |-> "admin", user |-> ConcAdmin, id |-> id, arg |-> arg,
   read |-> read, modified |-> modified]

Enqueue(request) ==
  [rid \in DOMAIN requests \cup {NextRequestId} |->
     IF rid \in DOMAIN requests THEN requests[rid] ELSE request]

Dequeue(done) == [rid \in DOMAIN requests \ {done} |-> requests[rid]]

\* $set of a path that was modified in memory
SetIfModified(stored, read, modified) ==
  IF modified # read THEN modified ELSE stored

\* $push of the entries pushed in memory
PushNew(stored, read, modified) ==
  stored \o SubSeq(modified, Len(read) + 1, Len(modified))

\* shipment.save() of a document loaded as `read` and changed to `modified`
SaveShipment(stored, read, modified) ==
  [stored EXCEPT
     !.status = SetIfModified(@, read.status, modified.status),
     !.driver = SetIfModified(@, read.driver, modified.driver),
     !.actualPickupDate =
        SetIfModified(@, read.actualPickupDate, modified.actualPickupDate),
     !.actualDeliveryDate =
        SetIfModified(@, read.actualDeliveryDate, modified.actualDeliveryDate),
     !.timeline = PushNew(@, read.timeline, modified.timeline)]

\* payment.save() of a document loaded as `read` and changed to `modified`
SavePayment(stored, read, modified) ==
  [stored EXCEPT
     !.status = SetIfModified(@, read.status, modified.status),
     !.paidDate = SetIfModified(@, read.paidDate, modified.paidDate),
     !.timeline = PushNew(@, read.timeline, modified.timeline),
     !.partialPayments =
        PushNew(@, read.partialPayments, modified.partialPayments),
     !.refunds = PushNew(@, read.refunds, modified.refunds)]

\* PUT /api/shipments/:id/status up to its save
BeginUpdateShipmentStatus ==
  \E id \in DOMAIN shipments :
  \E status \in ConcStatuses :
    LET r == UpdateShipmentStatusResult("admin", ConcAdmin, id, status, TRUE)
    IN  /\ Cardinality(DOMAIN requests) < MaxInflight
        /\ IF r.code = 200
           THEN /\ requests' = Enqueue(Inflight("updateShipmentStatus", id, status,
                                                shipments[id], r.doc))
                /\ UNCHANGED response
           ELSE /\ response' = Response("updateShipmentStatus", "admin", ConcAdmin,
                                        id, status, r)
                /\ UNCHANGED requests
        /\ UNCHANGED <<drivers, shipments, payments, accounts, now>>

\* PUT /api/shipments/:id/assign up to its save
BeginAssignDriver ==
  \E id \in DOMAIN shipments :
  \E driverId \in ConcDrivers :
    LET r == AssignDriverResult("admin", ConcAdmin, id, driverId, TRUE)
    IN  /\ Cardinality(DOMAIN requests) < MaxInflight
        /\ IF r.code = 200
           THEN /\ requests' = Enqueue(Inflight("assignDriver", id, driverId,
                                                shipments[id], r.doc))
                /\ UNCHANGED response
           ELSE /\ response' = Response("assignDriver", "admin", ConcAdmin,
                                        id, driverId, r)
                /\ UNCHANGED requests
        /\ UNCHANGED <<drivers, shipments, payments, accounts, now>>

\* the save of a shipment request, and its response
SaveShipmentRequest ==
  \E rid \in DOMAIN requests :
    LET request == requests[rid]
    IN  /\ request.op \in {"updateShipmentStatus", "assignDriver"}
        /\ Len(shipments[request.id].timeline) < MaxTimeline
        /\ shipments' =
             [shipments EXCEPT
                ![request.id] = SaveShipment(@, request.read, request.modified)]
        /\ requests' = Dequeue(rid)
        /\ response' =
             Response(request.op, request.userType, request.user, request.id,
                      request.arg, Result(200, "saved", NoDoc))
        /\ UNCHANGED <<drivers, payments, accounts, now>>

\* POST /api/payments/:id/partial up to its save
BeginPartialPayment ==
  \E id \in DOMAIN payments :
  \E amount \in ConcAmounts :
    LET r == PartialPaymentResult("admin", ConcAdmin, id, amount, TRUE)
    IN  /\ Cardinality(DOMAIN requests) < MaxInflight
        /\ IF r.code = 200
           THEN /\ requests' = Enqueue(Inflight("partialPayment", id, amount,
                                                payments[id], r.doc))
                /\ UNCHANGED response
           ELSE /\ response' = Response("partialPayment", "admin", ConcAdmin,
                                        id, amount, r)
                /\ UNCHANGED requests
        /\ UNCHANGED <<drivers, shipments, payments, accounts, now>>

\* the save of a partial-payment request, and its response
SavePaymentRequest ==
  \E rid \in DOMAIN requests :
    LET request == requests[rid]
    IN  /\ request.op = "partialPayment"
        /\ Len(payments[request.id].timeline) < MaxPayTimeline
        /\ payments' =
             [payments EXCEPT
                ![request.id] = SavePayment(@, request.read, request.modified)]
        /\ requests' = Dequeue(rid)
        /\ response' =
             Response(request.op, request.userType, request.user, request.id,
                      request.arg, Result(200, "saved", NoDoc))
        /\ UNCHANGED <<drivers, shipments, accounts, now>>

\* POST /api/payments up to Payment.create: both lookups are behind it
BeginCreatePayment ==
  \E shipmentId \in ShipmentIds \cup {UnknownShipment} :
  \E amount \in AmountInputs :
    LET r == CreatePaymentResult("admin", ConcAdmin, shipmentId, amount, TRUE)
        arg == [shipmentId |-> shipmentId, amount |-> amount]
    IN  /\ Cardinality(DOMAIN requests) < MaxInflight
        /\ IF r.code = 201
           THEN /\ requests' = Enqueue(Inflight("createPayment", Null, arg,
                                                NoDoc, r.doc))
                /\ UNCHANGED response
           ELSE /\ response' = Response("createPayment", "admin", ConcAdmin,
                                        Null, arg, r)
                /\ UNCHANGED requests
        /\ UNCHANGED <<drivers, shipments, payments, accounts, now>>

\* the insert of Payment.create, and the response
SaveCreatePayment ==
  \E rid \in DOMAIN requests :
    LET request == requests[rid]
    IN  /\ request.op = "createPayment"
        /\ DOMAIN payments # PaymentIds
        /\ payments' =
             [id \in DOMAIN payments \cup {NextPaymentId} |->
                IF id \in DOMAIN payments THEN payments[id] ELSE request.modified]
        /\ requests' = Dequeue(rid)
        /\ response' =
             Response(request.op, request.userType, request.user, NextPaymentId,
                      request.arg, Result(201, "saved", NoDoc))
        /\ UNCHANGED <<drivers, shipments, accounts, now>>

\* the login requests of the concurrent-login runs; an answered request
\* stays on record at its last position
LoginRequestIds == {"l1", "l2", "l3", "l4", "l5", "l6"}

LoginsInFlight == {rid \in DOMAIN requests : requests[rid].op = "login"}
LoginsAnswered == {rid \in DOMAIN requests : requests[rid].op = "loginAnswered"}

\* user.save() of an admin loaded as `read` and changed to `modified` by a
\* failed attempt
SaveAccount(stored, read, modified) ==
  [stored EXCEPT
     !.loginAttempts.count =
        SetIfModified(@, read.loginAttempts.count, modified.loginAttempts.count),
     !.loginAttempts.lastAttempt =
        SetIfModified(@, read.loginAttempts.lastAttempt,
                      modified.loginAttempts.lastAttempt),
     !.loginAttempts.lockedUntil =
        SetIfModified(@, read.loginAttempts.lockedUntil,
                      modified.loginAttempts.lockedUntil)]

\* POST /api/auth/login with a wrong password for an admin, up to user.save()
BeginFailedLogin ==
  LET rid == CHOOSE l \in LoginRequestIds : l \notin DOMAIN requests
      read == accounts[ConcAdmin]
      request == Inflight("login", Null, FALSE, read,
                          handleLoginAttempt(read, FALSE))
  IN  /\ DOMAIN requests # LoginRequestIds
      /\ Cardinality(LoginsInFlight) < MaxInflight
      /\ requests' = [l \in DOMAIN requests \cup {rid} |->
                        IF l \in DOMAIN requests THEN requests[l] ELSE request]
      /\ UNCHANGED <<drivers, shipments, payments, response, accounts, now>>

\* user.save() of the failed attempt, and the 401 response
SaveFailedLogin ==
  \E rid \in LoginsInFlight :
    LET request == requests[rid]
    IN  /\ accounts' = [accounts EXCEPT ![ConcAdmin] =
                          SaveAccount(@, request.read, request.modified)]
        /\ requests' = [requests EXCEPT ![rid].op = "loginAnswered"]
        /\ response' =
             Response("login", "admin", ConcAdmin, Null, FALSE,
                      Result(401, "Invalid credentials", NoDoc))
        /\ UNCHANGED <<drivers, shipments, payments, now>>

\* ------------------------------------------------------------ driver KYC
\* upload.fields([...]) of uploadKYCDocuments
DocumentTypes == {"profilePhoto", "licensePhoto", "nationalId", "proofOfAddress"}

totalDocs == 4

\* the drivers that act in the KYC runs, and a driver record with its documents
KycDrivers == {"d1", "d3"}

KycDriver(driver, verified) ==
  [status |-> driver.status, kycStatus |-> driver.kycStatus,
   kycDocuments |-> [t \in DocumentTypes |-> [verified |-> verified]]]

NoDocuments == [t \in {} |-> [verified |-> FALSE]]

\* the file sets an upload request carries
UploadSets ==
  { {}, {"profilePhoto", "licensePhoto"}, {"nationalId", "proofOfAddress"} }

\* the bodies a profile update carries
ProfileUpdates ==
  { [kycStatus |-> "approved"],
    [kycStatus |-> "verified"],
    [status |-> "approved", kycStatus |-> "pending"] }

\* the document verifications a review carries
ReviewVerifications ==
  { <<>>,
    << [documentType |-> "profilePhoto", verified |-> TRUE],
       [documentType |-> "nationalId", verified |-> TRUE] >> }

\* body('kycStatus') values a review is sent with
ReviewStatuses == {"approved", "rejected", "pending"}

\* the fields PUT /profile deletes from the body
SensitiveFields == {"password", "email", "status", "role", "permissions"}

\* driverSchema.virtual('kycCompletion')
kycCompletion(driver) ==
  (Cardinality(DOMAIN driver.kycDocuments) * 100) \div totalDocs

\* PUT /api/auth/profile: every key left in the body is assigned to the user;
\* the save validates kycStatus against its enum; the client and admin
\* records hold no field a body key left in place could name
UpdateProfileResult(userType, user, updates, saveOk) ==
  LET guard == protect({"driver", "client", "admin"}, userType, user)
      kept == DOMAIN updates \ SensitiveFields
      doc == IF userType = "driver"
             THEN [f \in DOMAIN drivers[user] |->
                     IF f \in kept THEN updates[f] ELSE drivers[user][f]]
             ELSE accounts[user]
  IN  IF guard # 0 THEN Result(guard, "not authorized", NoDoc)
      ELSE IF userType = "driver" /\ doc.kycStatus \notin KycStatuses
        THEN Result(500, "Server error during profile update", NoDoc)
      ELSE IF ~saveOk THEN Result(500, "Server error during profile update", NoDoc)
      ELSE Result(200, "Profile updated successfully", doc)

\* POST /api/auth/driver/kyc
UploadKycResult(userType, user, files, saveOk) ==
  LET guard == protect({"driver"}, userType, user)
      uploaded == [t \in DOMAIN drivers[user].kycDocuments \cup files |->
                     IF t \in files THEN [verified |-> FALSE]
                     ELSE drivers[user].kycDocuments[t]]
      merged == [drivers[user] EXCEPT !.kycDocuments = uploaded]
      doc == IF kycCompletion(merged) >= 100
             THEN [merged EXCEPT !.kycStatus = "in_review"] ELSE merged
  IN  IF guard # 0 THEN Result(guard, "not authorized", NoDoc)
      ELSE IF files = {} THEN Result(400, "No files uploaded", NoDoc)
      ELSE IF ~saveOk THEN Result(500, "Server error during KYC upload", NoDoc)
      ELSE Result(200, "KYC documents uploaded successfully", doc)

RECURSIVE ApplyVerifications(_, _)
\* documentVerifications.forEach(...)
ApplyVerifications(documents, verifications) ==
  IF verifications = <<>> THEN documents
  ELSE LET v == Head(verifications)
           next == IF v.documentType \in DOMAIN documents
                   THEN [documents EXCEPT ![v.documentType].verified = v.verified]
                   ELSE documents
       IN  ApplyVerifications(next, Tail(verifications))

\* PUT /api/admin/drivers/:id/kyc
ReviewKycResult(userType, user, id, kycStatus, verifications, saveOk) ==
  LET guard == protect({"admin"}, userType, user)
      perm == checkPermission(userType, user, "drivers", "approve")
  IN  IF guard # 0 THEN Result(guard, "not authorized", NoDoc)
      ELSE IF perm # 0 THEN Result(perm, "Permission denied", NoDoc)
      ELSE IF kycStatus \notin {"approved", "rejected"}
        THEN Result(400, "Validation errors", NoDoc)
      ELSE IF id \notin DOMAIN drivers THEN Result(404, "Driver not found", NoDoc)
      ELSE IF ~saveOk THEN Result(500, "Server error updating KYC status", NoDoc)
      ELSE Result(200, "Driver KYC status updated",
                  [drivers[id] EXCEPT
                     !.kycDocuments = ApplyVerifications(@, verifications),
                     !.kycStatus = kycStatus])

\* the principals of the KYC runs
KycUsersOf(userType) == IF userType = "driver" THEN KycDrivers ELSE UsersOf(userType)

UpdateProfile ==
  \E userType \in {"driver", "client"} :
  \E user \in KycUsersOf(userType) :
  \E updates \in ProfileUpdates :
  \E saveOk \in SaveOutcomes(UpdateProfileResult(userType, user, updates, TRUE)) :
    LET r == UpdateProfileResult(userType, user, updates, saveOk)
    IN  /\ drivers' = IF r.code = 200 /\ userType = "driver"
                      THEN [drivers EXCEPT ![user] = r.doc] ELSE drivers
        /\ response' = Response("updateProfile", userType, user, Null, updates, r)
        /\ UNCHANGED <<shipments, payments, accounts, now, requests>>

UploadKyc ==
  \E userType \in {"driver", "client"} :
  \E user \in KycUsersOf(userType) :
  \E files \in UploadSets :
  \E saveOk \in SaveOutcomes(UploadKycResult(userType, user, files, TRUE)) :
    LET r == UploadKycResult(userType, user, files, saveOk)
    IN  /\ drivers' = IF r.code = 200 THEN [drivers EXCEPT ![user] = r.doc]
                      ELSE drivers
        /\ response' = Response("uploadKyc", userType, user, Null, files, r)
        /\ UNCHANGED <<shipments, payments, accounts, now, requests>>

ReviewKyc ==
  \E userType \in {"admin", "driver"} :
  \E user \in IF userType = "driver" THEN {"d1"} ELSE UsersOf(userType) :
  \E id \in KycDrivers \cup {UnknownDriver} :
  \E kycStatus \in ReviewStatuses :
  \E verifications \in ReviewVerifications :
  \E saveOk \in SaveOutcomes(ReviewKycResult(userType, user, id, kycStatus,
                                             verifications, TRUE)) :
    LET r == ReviewKycResult(userType, user, id, kycStatus, verifications, saveOk)
    IN  /\ drivers' = IF r.code = 200 THEN [drivers EXCEPT ![id] = r.doc]
                      ELSE drivers
        /\ response' = Response("reviewKyc", userType, user, id, kycStatus, r)
        /\ UNCHANGED <<shipments, payments, accounts, now, requests>>

\* ------------------------------------------------------ permission check
\* the permission entries and lists an admin document may hold: POST
\* /api/admin/users stores the list of the request body as it comes
PermissionEntries ==
  [module : {"shipments", "payments"},
   actions : {{"read"}, {"update"}, {"read", "update"}}]

RECURSIVE ListsUpTo(_, _)
ListsUpTo(entries, n) ==
  IF n = 0 THEN {<<>>}
  ELSE ListsUpTo(entries, n - 1)
       \cup {Append(l, e) : l \in ListsUpTo(entries, n - 1), e \in entries}

PermissionLists == ListsUpTo(PermissionEntries, MaxPermissions)

\* checkPermission(module, action) on a request of an admin whose document
\* carries the given role and permissions
PermissionCheck ==
  \E role \in {"super_admin", "operator"} :
  \E permissions \in PermissionLists :
  \E module \in {"shipments", "payments"} :
  \E action \in {"create", "update"} :
    LET granted == PermissionGranted(role, permissions, module, action)
    IN  /\ response' =
             Response("checkPermission", "admin",
                      [role |-> role, permissions |-> permissions],
                      module, action,
                      IF granted THEN Result(0, "next", NoDoc)
                      ELSE Result(403, "Permission denied", NoDoc))
        /\ UNCHANGED <<drivers, shipments, payments, accounts, now, requests>>

Init ==
  /\ drivers = InitialDrivers
  /\ shipments = EmptyStore
  /\ payments = EmptyStore
  /\ response = NoResponse
  /\ accounts = InitialAccounts
  /\ now = 0
  /\ requests = EmptyStore

Next ==
  \/ CreateShipment
  \/ UpdateShipmentStatus
  \/ AssignDriver

Spec == Init /\ [][Next]_vars

\* the permission check on its own, applied to every admin document
NextPerm == PermissionCheck

SpecPerm == Init /\ [][NextPerm]_vars

\* a shipment on its way, carried by driver d1
ShipmentInTransit ==
  ShipmentUpdateStatus(
    ShipmentUpdateStatus(
      ShipmentUpdateStatus(
        AssignedShipment(NewShipment("c1", SumWeight(ValidItems)), "d1"),
        "picked"),
      "processing"),
    "in_transit")

\* the accounts that were deactivated after their tokens were issued: the
\* super admin and the client, in each of the inactive statuses
GuardConfigs ==
  { [admin |-> "inactive", client |-> "suspended"],
    [admin |-> "suspended", client |-> "inactive"],
    [admin |-> "terminated", client |-> "suspended"] }

\* every route behind the guard, with the driver of the shipment on file
\* suspended and the super admin and the client deactivated
InitGuard ==
  \E config \in GuardConfigs :
    /\ drivers = [InitialDrivers EXCEPT !["d1"].status = "suspended"]
    /\ shipments = [id \in ShipmentIds |-> ShipmentInTransit]
    /\ payments = EmptyStore
    /\ response = NoResponse
    /\ accounts = [InitialAccounts EXCEPT !["a1"].status = config.admin,
                                          !["c1"].status = config.client]
    /\ now = 0
    /\ requests = EmptyStore

NextGuard ==
  \/ CreateShipment
  \/ UpdateShipmentStatus
  \/ AssignDriver
  \/ CreatePayment
  \/ UpdatePaymentStatus
  \/ Refund
  \/ PartialPayment
  \/ Login

SpecGuard == InitGuard /\ [][NextGuard]_vars

\* concurrent status requests on a shipment that is assigned to d1
InitConcStatus ==
  /\ drivers = InitialDrivers
  /\ shipments =
       [id \in ShipmentIds |->
          AssignedShipment(NewShipment("c1", SumWeight(ValidItems)), "d1")]
  /\ payments = EmptyStore
  /\ response = NoResponse
  /\ accounts = InitialAccounts
  /\ now = 0
  /\ requests = EmptyStore

NextConcStatus ==
  \/ BeginUpdateShipmentStatus
  \/ SaveShipmentRequest

SpecConcStatus == InitConcStatus /\ [][NextConcStatus]_vars

\* concurrent assignments of a pending shipment
InitConcAssign ==
  /\ drivers = InitialDrivers
  /\ shipments = [id \in ShipmentIds |-> NewShipment("c1", SumWeight(ValidItems))]
  /\ payments = EmptyStore
  /\ response = NoResponse
  /\ accounts = InitialAccounts
  /\ now = 0
  /\ requests = EmptyStore

NextConcAssign ==
  \/ BeginAssignDriver
  \/ SaveShipmentRequest

SpecConcAssign == InitConcAssign /\ [][NextConcAssign]_vars

\* concurrent partial payments on a pending payment of total 2
InitConcPay ==
  /\ drivers = InitialDrivers
  /\ shipments = [id \in ShipmentIds |-> NewShipment("c1", SumWeight(ValidItems))]
  /\ payments = [id \in TargetPaymentIds |-> NewPayment("c1", "s1", Amount(2, 0, 0, 2))]
  /\ response = NoResponse
  /\ accounts = InitialAccounts
  /\ now = 0
  /\ requests = EmptyStore

NextConcPay ==
  \/ BeginPartialPayment
  \/ SavePaymentRequest

SpecConcPay == InitConcPay /\ [][NextConcPay]_vars

\* the KYC runs: d1 reviewed and approved, d3 approved with nothing on file
InitKyc ==
  /\ drivers = [d \in DriverIds |->
                  IF d = "d3"
                  THEN [KycDriver(InitialDrivers[d], FALSE)
                          EXCEPT !.kycDocuments = NoDocuments]
                  ELSE KycDriver(InitialDrivers[d], d = "d1")]
  /\ shipments = EmptyStore
  /\ payments = EmptyStore
  /\ response = NoResponse
  /\ accounts = InitialAccounts
  /\ now = 0
  /\ requests = EmptyStore

NextKyc ==
  \/ UpdateProfile
  \/ UploadKyc
  \/ ReviewKyc

SpecKyc == InitKyc /\ [][NextKyc]_vars

\* concurrent wrong-password logins on one admin account
InitConcLogin ==
  /\ drivers = InitialDrivers
  /\ shipments = EmptyStore
  /\ payments = EmptyStore
  /\ response = NoResponse
  /\ accounts = InitialAccounts
  /\ now = 0
  /\ requests = EmptyStore

NextConcLogin ==
  \/ BeginFailedLogin
  \/ SaveFailedLogin

SpecConcLogin == InitConcLogin /\ [][NextConcLogin]_vars

\* concurrent create-payment requests, one shipment on file and no payment
InitConcCreate ==
  /\ drivers = InitialDrivers
  /\ shipments = [id \in ShipmentIds |-> NewShipment("c1", SumWeight(ValidItems))]
  /\ payments = EmptyStore
  /\ response = NoResponse
  /\ accounts = InitialAccounts
  /\ now = 0
  /\ requests = EmptyStore

NextConcCreate ==
  \/ BeginCreatePayment
  \/ SaveCreatePayment

SpecConcCreate == InitConcCreate /\ [][NextConcCreate]_vars

\* the payment ledger, started with one shipment on file
InitPay ==
  /\ drivers = InitialDrivers
  /\ shipments = [id \in ShipmentIds |-> NewShipment("c1", SumWeight(ValidItems))]
  /\ payments = EmptyStore
  /\ response = NoResponse
  /\ accounts = InitialAccounts
  /\ now = 0
  /\ requests = EmptyStore

NextPay ==
  \/ CreatePayment
  \/ UpdatePaymentStatus
  \/ Refund
  \/ PartialPayment

SpecPay == InitPay /\ [][NextPay]_vars

\* ------------------------------------------------------------ properties
\* the adjacency table of the shipment state machine, as specified
AdjacencyTable ==
  { <<"pending", "assigned">>, <<"pending", "cancelled">>,
    <<"assigned", "picked">>, <<"assigned", "cancelled">>,
    <<"picked", "packed">>, <<"picked", "processing">>, <<"picked", "failed">>,
    <<"packed", "processing">>, <<"packed", "in_transit">>,
    <<"processing", "in_transit">>, <<"processing", "failed">>,
    <<"in_transit", "out_for_delivery">>, <<"in_transit", "delivered">>,
    <<"in_transit", "failed">>,
    <<"out_for_delivery", "delivered">>, <<"out_for_delivery", "failed">>,
    <<"out_for_delivery", "returned">>,
    <<"failed", "processing">>, <<"failed", "cancelled">> }

Accepted(r) == r.code \in {200, 201}

\* C1: every stored shipment has a non-empty timeline and its status field
\* equals the status of the last timeline entry, after any sequence of create,
\* status-transition and assign-driver requests, accepted or rejected.
C1_StatusIsLastTimelineEntry ==
  \A id \in DOMAIN shipments :
    /\ Len(shipments[id].timeline) >= 1
    /\ shipments[id].status = Last(shipments[id].timeline).status

\* a shipment that went through an assignment and a transition, and then had
\* a request rejected
C1_Witness ==
  \E id \in DOMAIN shipments :
    /\ shipments[id].status = "picked"
    /\ Len(shipments[id].timeline) = 3
    /\ response.op = "updateShipmentStatus"
    /\ response.code = 400

\* C2: a status-transition request for a pair (current, requested) that is not
\* in the adjacency table is rejected (with "Cannot transition" when it passed
\* the route guard, the validator and the lookup), and the stored shipment is
\* identical to before the attempt.
C2_InvalidTransitionRejected ==
  [][\A id \in DOMAIN shipments :
       ( /\ response'.op = "updateShipmentStatus"
         /\ response'.id = id
         /\ <<shipments[id].status, response'.arg>> \notin AdjacencyTable )
       => /\ ~Accepted(response')
          /\ response'.code \in {400, 401, 403, 404}
          /\ shipments' = shipments
          /\ ( /\ response'.userType = "admin"
               /\ response'.arg \in RequestableStatuses )
             => /\ response'.code = 400
                /\ response'.message = "Cannot transition"]_vars

\* the scenario delivered -> in_transit, rejected
C2_Witness ==
  \E id \in DOMAIN shipments :
    /\ shipments[id].status = "delivered"
    /\ response.op = "updateShipmentStatus"
    /\ response.id = id
    /\ response.arg = "in_transit"
    /\ response.message = "Cannot transition"

C4_AssignAllOrNothing ==
  [][\A id \in ShipmentIds :
       (response'.op = "assignDriver" /\ response'.id = id)
       => \/ /\ response'.code = 200
             /\ id \in DOMAIN shipments
             /\ shipments' =
                  [shipments EXCEPT
                     ![id].driver = response'.arg,
                     ![id].status = "assigned",
                     ![id].timeline = Append(@, [status |-> "assigned"])]
          \/ /\ response'.code # 200
             /\ shipments' = shipments]_vars

\* an accepted assignment of the second eligible driver
C4_Witness ==
  \E id \in DOMAIN shipments :
    /\ response.op = "assignDriver"
    /\ response.code = 200
    /\ response.arg = "d2"
    /\ shipments[id].driver = "d2"
    /\ Len(shipments[id].timeline) = 2

\* C5: an assign-driver request naming a driver whose status is not approved
\* or whose kycStatus is not approved is rejected (with the ineligibility
\* message when the requester is an admin permitted to update shipments), and
\* the shipment is left as it was: pending, no driver, same timeline.
C5_IneligibleDriverRejected ==
  [][( /\ response'.op = "assignDriver"
       /\ response'.arg \in DOMAIN drivers
       /\ \/ drivers[response'.arg].status # "approved"
          \/ drivers[response'.arg].kycStatus # "approved" )
     => /\ ~Accepted(response')
        /\ shipments' = shipments
        /\ ( /\ response'.userType = "admin"
             /\ hasPermission(response'.user, "shipments", "update") )
           => /\ response'.code = 400
              /\ response'.message = "Driver is not approved or KYC not completed"]_vars

\* the scenario: a driver with status pending is refused for a pending shipment
C5_Witness ==
  \E id \in DOMAIN shipments :
    /\ response.op = "assignDriver"
    /\ response.id = id
    /\ response.arg = "d3"
    /\ drivers["d3"].status = "pending"
    /\ response.message = "Driver is not approved or KYC not completed"
    /\ shipments[id].status = "pending"
    /\ shipments[id].driver = Null
    /\ Len(shipments[id].timeline) = 1

\* C6: an assign-driver request on a shipment whose status is not pending is
\* rejected and leaves the shipment's driver, status and timeline unchanged.
C6_AssignOnlyWhenPending ==
  [][\A id \in DOMAIN shipments :
       ( /\ response'.op = "assignDriver"
         /\ response'.id = id
         /\ shipments[id].status # "pending" )
       => /\ ~Accepted(response')
          /\ shipments' = shipments]_vars

\* an eligible driver refused for a shipment that is already assigned
C6_Witness ==
  \E id \in DOMAIN shipments :
    /\ response.op = "assignDriver"
    /\ response.id = id
    /\ response.arg = "d2"
    /\ response.message = "Can only assign drivers to pending shipments"
    /\ shipments[id].status = "assigned"
    /\ shipments[id].driver = "d1"

\* ---------------------------------------------------- payment properties
RECURSIVE SumAmounts(_)
\* the amounts of all entries of a list, whatever their status
SumAmounts(entries) ==
  IF entries = <<>> THEN 0
  ELSE Last(entries).amount + SumAmounts(SubSeq(entries, 1, Len(entries) - 1))

\* the balance a partial payment is checked against, as specified
BalanceDue(payment) ==
  IF payment.status = "completed" THEN 0
  ELSE payment.amount.total - SumCompleted(payment.partialPayments)

PartialPaymentsWithinTotal ==
  \A id \in DOMAIN payments :
    SumCompleted(payments[id].partialPayments) <= payments[id].amount.total

ExcessPartialPaymentRejected ==
  \A id \in DOMAIN payments :
    ( /\ response'.op = "partialPayment"
      /\ response'.id = id
      /\ response'.arg > BalanceDue(payments[id]) )
    => /\ ~Accepted(response')
       /\ payments'[id].partialPayments = payments[id].partialPayments
       /\ payments'[id].timeline = payments[id].timeline
       /\ payments' = payments

\* C7: after any sequence of partial-payment, status-update and refund
\* requests the sum of a payment's completed partial payments never exceeds
\* amount.total, and a partial payment whose amount exceeds remainingBalance
\* is rejected and appends no partial-payment entry and no timeline entry.
C7_PartialPaymentsBounded ==
  []PartialPaymentsWithinTotal /\ [][ExcessPartialPaymentRejected]_vars

\* a payment of total 2 with 1 paid refuses a partial payment of 2
C7_Witness ==
  \E id \in DOMAIN payments :
    /\ payments[id].amount.total = 2
    /\ SumCompleted(payments[id].partialPayments) = 1
    /\ payments[id].status = "processing"
    /\ response.op = "partialPayment"
    /\ response.id = id
    /\ response.arg = 2
    /\ response.message = "Payment amount exceeds remaining balance"

CompletedRefundsWithinTotal ==
  \A id \in DOMAIN payments :
    SumCompleted(payments[id].refunds) <= payments[id].amount.total

ExcessRefundRejected ==
  \A id \in DOMAIN payments :
    ( /\ response'.op = "refund"
      /\ response'.id = id
      /\ response'.arg >
           payments[id].amount.total - SumCompleted(payments[id].refunds) )
    => /\ ~Accepted(response')
       /\ payments'[id].refunds = payments[id].refunds
       /\ payments'[id].status = payments[id].status
       /\ payments' = payments

\* C8: the sum of a payment's completed refund amounts never exceeds
\* amount.total, and a refund request whose amount exceeds amount.total minus
\* totalRefunded is rejected, appends no refund entry and leaves the
\* payment's status as it was.
C8_RefundsBounded ==
  []CompletedRefundsWithinTotal /\ [][ExcessRefundRejected]_vars

\* a completed payment of total 2 refuses a refund of 3
C8_Witness ==
  \E id \in DOMAIN payments :
    /\ payments[id].status = "completed"
    /\ payments[id].amount.total = 2
    /\ response.op = "refund"
    /\ response.id = id
    /\ response.arg = 3
    /\ response.message = "Refund amount exceeds available balance"

\* C9 as stated: a successful addRefund appends a refund in status pending and
\* does not itself change the payment's status.
C9_RefundKeepsStatus ==
  [][\A id \in DOMAIN payments :
       ( /\ response'.op = "refund"
         /\ response'.id = id
         /\ Accepted(response') )
       => /\ payments'[id].refunds =
               Append(payments[id].refunds,
                      [amount |-> response'.arg, status |-> "pending"])
          /\ payments'[id].status = payments[id].status]_vars

\* C9, amended: a successful addRefund appends a refund in status pending and
\* itself sets the payment's status, counting the completed refunds plus the
\* amount just added: refunded when they reach amount.total, otherwise
\* partially_refunded; it appends no timeline entry and leaves paidDate alone.
C9_RefundSetsStatus ==
  [][\A id \in DOMAIN payments :
       ( /\ response'.op = "refund"
         /\ response'.id = id
         /\ Accepted(response') )
       => /\ payments'[id].refunds =
               Append(payments[id].refunds,
                      [amount |-> response'.arg, status |-> "pending"])
          /\ payments[id].status = "completed"
          /\ payments'[id].status =
               IF SumCompleted(payments[id].refunds) + response'.arg
                    >= payments[id].amount.total
               THEN "refunded" ELSE "partially_refunded"
          /\ payments'[id].timeline = payments[id].timeline
          /\ payments'[id].paidDate = payments[id].paidDate]_vars

\* an accepted refund of 1 on a payment of total 2: the refund is pending and
\* the payment is already partially_refunded
C9_Witness ==
  \E id \in DOMAIN payments :
    /\ response.op = "refund"
    /\ response.id = id
    /\ response.code = 200
    /\ response.arg = 1
    /\ payments[id].amount.total = 2
    /\ payments[id].refunds = << [amount |-> 1, status |-> "pending"] >>
    /\ payments[id].status = "partially_refunded"

\* C10 as stated: on a completed payment, successive refund requests whose
\* cumulative amount stays at most amount.total are each accepted (the store
\* permitting), and the status is partially_refunded while the cumulative
\* amount is below amount.total and refunded once it reaches it.
C10_SuccessiveRefundsAccepted ==
  [][\A id \in DOMAIN payments :
       ( /\ response'.op = "refund"
         /\ response'.id = id
         /\ response'.userType = "admin"
         /\ hasPermission(response'.user, "payments", "update")
         /\ response'.arg >= MinAmount
         /\ payments[id].status \in {"completed", "partially_refunded"}
         /\ payments[id].status = "partially_refunded"
            => payments[id].refunds # <<>>
         /\ SumAmounts(payments[id].refunds) + response'.arg
              <= payments[id].amount.total
         /\ response'.code # 500 )
       => /\ Accepted(response')
          /\ payments'[id].status =
               IF SumAmounts(payments'[id].refunds) = payments[id].amount.total
               THEN "refunded" ELSE "partially_refunded"]_vars

\* C11: a refund request on a payment whose status is not completed is
\* rejected and leaves the payment's refunds list, status and timeline (the
\* whole stored payment) unchanged.
C11_RefundOnlyWhenCompleted ==
  [][\A id \in DOMAIN payments :
       ( /\ response'.op = "refund"
         /\ response'.id = id
         /\ payments[id].status # "completed" )
       => /\ ~Accepted(response')
          /\ payments'[id].refunds = payments[id].refunds
          /\ payments'[id].status = payments[id].status
          /\ payments'[id].timeline = payments[id].timeline
          /\ payments' = payments]_vars

\* a refund within the total refused for a payment that is still processing
C11_Witness ==
  \E id \in DOMAIN payments :
    /\ payments[id].status = "processing"
    /\ payments[id].amount.total = 2
    /\ payments[id].refunds = <<>>
    /\ response.op = "refund"
    /\ response.id = id
    /\ response.arg = 1
    /\ response.message = "Can only refund completed payments"

\* C12: a successful partial payment appends one partial-payment entry with
\* status completed and one payment timeline entry; if the remaining balance
\* after it is <= 0 the status becomes completed and paidDate is set,
\* otherwise the status becomes processing and the new timeline entry records
\* the partial amount.
C12_PartialPaymentEffect ==
  [][\A id \in DOMAIN payments :
       ( /\ response'.op = "partialPayment"
         /\ response'.id = id
         /\ Accepted(response') )
       => LET amount == response'.arg
              after == BalanceDue(payments[id]) - amount
          IN  /\ payments'[id].partialPayments =
                   Append(payments[id].partialPayments,
                          [amount |-> amount, status |-> "completed"])
              /\ Len(payments'[id].timeline) = Len(payments[id].timeline) + 1
              /\ SubSeq(payments'[id].timeline, 1, Len(payments[id].timeline))
                   = payments[id].timeline
              /\ Last(payments'[id].timeline).status = payments'[id].status
              /\ remainingBalance(payments'[id]) = after
              /\ IF after <= 0
                 THEN /\ payments'[id].status = "completed"
                      /\ payments'[id].paidDate # 0
                 ELSE /\ payments'[id].status = "processing"
                      /\ Last(payments'[id].timeline).amount = amount
                      /\ payments'[id].paidDate = payments[id].paidDate]_vars

\* the scenario: a total of 2 paid in two parts of 1, the second completing it
C12_Witness ==
  \E id \in DOMAIN payments :
    /\ payments[id].amount.total = 2
    /\ payments[id].partialPayments =
         << [amount |-> 1, status |-> "completed"],
            [amount |-> 1, status |-> "completed"] >>
    /\ payments[id].timeline[2] = [status |-> "processing", amount |-> 1]
    /\ payments[id].status = "completed"
    /\ payments[id].paidDate # 0
    /\ remainingBalance(payments[id]) = 0
    /\ response.op = "partialPayment"
    /\ response.code = 200

OnePaymentPerShipment ==
  \A p \in DOMAIN payments : \A q \in DOMAIN payments :
    payments[p].shipment = payments[q].shipment => p = q

DuplicateCreateRejected ==
  ( /\ response'.op = "createPayment"
    /\ \E p \in DOMAIN payments : payments[p].shipment = response'.arg.shipmentId )
  => /\ ~Accepted(response')
     /\ payments' = payments

\* C14: with create-payment requests handled one at a time, at most one
\* payment references any given shipment: a create-payment request for a
\* shipment that already has a payment is rejected and creates no payment.
C14_OnePaymentPerShipment ==
  []OnePaymentPerShipment /\ [][DuplicateCreateRejected]_vars

\* a second create request for the shipment that already has its payment
C14_Witness ==
  /\ Cardinality(DOMAIN payments) = 1
  /\ \E p \in DOMAIN payments : payments[p].shipment = "s1"
  /\ response.op = "createPayment"
  /\ response.arg.shipmentId = "s1"
  /\ response.userType = "admin"
  /\ response.code = 400
  /\ response.message = "Payment already exists for this shipment"

\* C15 as stated: for every payment, after any sequence of create,
\* status-update, partial-payment and refund operations, the timeline is
\* non-empty and the status equals the status of the last timeline entry.
C15_PaymentStatusIsLastTimelineEntry ==
  \A id \in DOMAIN payments :
    /\ Len(payments[id].timeline) >= 1
    /\ payments[id].status = Last(payments[id].timeline).status

CompletedHasPaidDate ==
  \A id \in DOMAIN payments :
    payments[id].status = "completed" => payments[id].paidDate # 0

AnyStatusUpdateSucceeds ==
  \A id \in DOMAIN payments :
    ( /\ response'.op = "updatePaymentStatus"
      /\ response'.id = id
      /\ response'.userType = "admin"
      /\ hasPermission(response'.user, "payments", "update")
      /\ response'.arg \in {"processing", "completed", "failed", "cancelled"}
      /\ response'.code # 500 )
    => /\ Accepted(response')
       /\ payments'[id].status = response'.arg
       /\ Len(payments'[id].timeline) = Len(payments[id].timeline) + 1
       /\ SubSeq(payments'[id].timeline, 1, Len(payments[id].timeline))
            = payments[id].timeline
       /\ Last(payments'[id].timeline).status = response'.arg
       /\ response'.arg = "completed" => payments'[id].paidDate # 0
       /\ response'.arg # "completed" => payments'[id].paidDate = payments[id].paidDate

\* C16: the payment status update enforces no adjacency table: from every
\* payment status a request (by a permitted admin, the store permitting) for
\* any of processing, completed, failed or cancelled succeeds, appends exactly
\* one timeline entry with that status, and sets paidDate when the new status
\* is completed; consequently every completed payment has paidDate set.
C16_NoPaymentAdjacency ==
  []CompletedHasPaidDate /\ [][AnyStatusUpdateSucceeds]_vars

\* a refunded payment set back to completed by a status update
C16_Witness ==
  \E id \in DOMAIN payments :
    /\ payments[id].refunds # <<>>
    /\ Len(payments[id].timeline) = 3
    /\ payments[id].timeline[2].status = "completed"
    /\ payments[id].status = "completed"
    /\ payments[id].paidDate = 3
    /\ response.op = "updatePaymentStatus"
    /\ response.arg = "completed"
    /\ response.code = 200

\* --------------------------------------------- shipment properties, continued
IsPrefix(old, new) ==
  /\ Len(old) <= Len(new)
  /\ SubSeq(new, 1, Len(old)) = old

\* C17: the shipment timeline is append-only: every successful status
\* transition or assignment appends exactly one entry whose status is the new
\* status, and every operation leaves all previously existing timeline
\* entries unchanged in content and order.
C17_ShipmentTimelineAppendOnly ==
  [][\A id \in DOMAIN shipments :
       /\ id \in DOMAIN shipments'
       /\ IsPrefix(shipments[id].timeline, shipments'[id].timeline)
       /\ ( /\ response'.op \in {"updateShipmentStatus", "assignDriver"}
            /\ response'.id = id
            /\ Accepted(response') )
          => shipments'[id].timeline =
               Append(shipments[id].timeline, [status |-> shipments'[id].status])
       /\ ( /\ response'.op = "updateShipmentStatus"
            /\ response'.id = id
            /\ Accepted(response') )
          => shipments'[id].status = response'.arg
       /\ ( /\ response'.op = "assignDriver"
            /\ response'.id = id
            /\ Accepted(response') )
          => shipments'[id].status = "assigned"
       /\ ~Accepted(response') => shipments'[id].timeline = shipments[id].timeline]_vars

\* an accepted transition to packed on top of the three earlier entries
C17_Witness ==
  \E id \in DOMAIN shipments :
    /\ shipments[id].timeline =
         << [status |-> "pending"], [status |-> "assigned"],
            [status |-> "picked"], [status |-> "packed"] >>
    /\ response.op = "updateShipmentStatus"
    /\ response.arg = "packed"
    /\ response.code = 200

DatesStamped ==
  \A id \in DOMAIN shipments :
    /\ (\E i \in 1..Len(shipments[id].timeline) :
          shipments[id].timeline[i].status = "picked")
       => shipments[id].actualPickupDate # 0
    /\ shipments[id].status = "delivered" => shipments[id].actualDeliveryDate # 0

OtherTransitionsKeepDates ==
  \A id \in DOMAIN shipments :
    ( /\ response'.id = id
      /\ \/ response'.op = "assignDriver"
         \/ /\ response'.op = "updateShipmentStatus"
            /\ response'.arg \notin {"picked", "delivered"} )
    => /\ shipments'[id].actualPickupDate = shipments[id].actualPickupDate
       /\ shipments'[id].actualDeliveryDate = shipments[id].actualDeliveryDate

\* C18: a shipment whose timeline contains a picked entry has
\* actualPickupDate set and a shipment whose status is delivered has
\* actualDeliveryDate set; transitions to any other status leave both date
\* fields unchanged.
C18_DatesStamped ==
  []DatesStamped /\ [][OtherTransitionsKeepDates]_vars

\* a delivered shipment with both dates stamped by their own transitions, the
\* pickup date untouched by the three transitions after it
C18_Witness ==
  \E id \in DOMAIN shipments :
    /\ shipments[id].status = "delivered"
    /\ shipments[id].actualPickupDate = 3
    /\ shipments[id].actualDeliveryDate = Len(shipments[id].timeline)
    /\ Len(shipments[id].timeline) = 6
    /\ response.op = "updateShipmentStatus"
    /\ response.code = 200

\* C19: a status-transition request by a driver succeeds only if that driver
\* is the shipment's assigned driver, and a request by a client never
\* succeeds; in both rejected cases the shipment is unchanged.
C19_DriverOwnShipmentOnly ==
  [][\A id \in ShipmentIds :
       ( /\ response'.op = "updateShipmentStatus"
         /\ response'.id = id )
       => /\ ( /\ response'.userType = "driver"
               /\ Accepted(response') )
             => /\ id \in DOMAIN shipments
                /\ shipments[id].driver = response'.user
          /\ response'.userType = "client" => ~Accepted(response')
          /\ ( /\ response'.userType = "driver"
               /\ id \in DOMAIN shipments
               /\ shipments[id].driver # response'.user )
             => /\ ~Accepted(response')
                /\ response'.arg \in RequestableStatuses => response'.code = 404
                /\ shipments' = shipments
          /\ response'.userType = "client"
             => /\ response'.code = 403
                /\ shipments' = shipments]_vars

\* another approved driver asks to pick a shipment assigned to d1 and is
\* answered as if the shipment did not exist
C19_Witness ==
  \E id \in DOMAIN shipments :
    /\ shipments[id].status = "assigned"
    /\ shipments[id].driver = "d1"
    /\ response.op = "updateShipmentStatus"
    /\ response.id = id
    /\ response.userType = "driver"
    /\ response.user = "d2"
    /\ response.arg = "picked"
    /\ response.code = 404

\* the module and the action a mutation would need, as specified
ModuleOf(op) ==
  IF op \in {"createShipment", "updateShipmentStatus", "assignDriver"}
  THEN "shipments" ELSE "payments"

ActionOf(op) ==
  IF op \in {"createShipment", "createPayment"} THEN "create" ELSE "update"

\* C20 as stated: no mutation of a shipment or payment requested by an admin
\* who is not super_admin succeeds unless that admin's permission set contains
\* the matching module and action.
C20_MutationsNeedPermission ==
  [][( /\ response'.userType = "admin"
       /\ response'.op \in {"createShipment", "updateShipmentStatus",
                            "assignDriver", "createPayment",
                            "updatePaymentStatus", "refund", "partialPayment"}
       /\ Accepted(response')
       /\ admins[response'.user].role # "super_admin" )
     => \E i \in 1..Len(admins[response'.user].permissions) :
          /\ admins[response'.user].permissions[i].module = ModuleOf(response'.op)
          /\ ActionOf(response'.op) \in admins[response'.user].permissions[i].actions]_vars

\* the total weight of a manifest, as specified: the sum over the items of
\* weight times quantity
ManifestWeight(items) ==
  LET Upto[n \in 0..Len(items)] ==
        IF n = 0 THEN 0 ELSE Upto[n - 1] + items[n].weight * items[n].quantity
  IN  Upto[Len(items)]

\* C21: a successful create-shipment request produces a shipment with status
\* pending, a null driver, a timeline of exactly one entry with status pending
\* written in the same save as the record itself, and totalWeight equal to the
\* sum over the items of weight times quantity.
C21_CreatedShipment ==
  [][( /\ response'.op = "createShipment"
       /\ Accepted(response') )
     => /\ response'.id \notin DOMAIN shipments
        /\ DOMAIN shipments' = DOMAIN shipments \cup {response'.id}
        /\ \A id \in DOMAIN shipments : shipments'[id] = shipments[id]
        /\ shipments'[response'.id].status = "pending"
        /\ shipments'[response'.id].driver = Null
        /\ shipments'[response'.id].timeline = << [status |-> "pending"] >>
        /\ shipments'[response'.id].totalWeight =
             ManifestWeight(response'.arg.body.items)
        /\ shipments'[response'.id].client =
             IF response'.userType = "admin" THEN response'.arg.clientId
             ELSE response'.user]_vars

\* a client's accepted request: two items, 2 x 50 and 1 x 10, total 110
C21_Witness ==
  \E id \in DOMAIN shipments :
    /\ response.op = "createShipment"
    /\ response.code = 201
    /\ response.id = id
    /\ response.userType = "client"
    /\ Len(response.arg.body.items) = 2
    /\ shipments[id].totalWeight = 110
    /\ shipments[id].status = "pending"
    /\ Len(shipments[id].timeline) = 1

\* C22: a create-shipment request whose requested pickup date is earlier than
\* the current time, or whose requested delivery date is not strictly later
\* than the requested pickup date, is rejected and creates no shipment.
C22_BadDatesRejected ==
  [][( /\ response'.op = "createShipment"
       /\ \/ response'.arg.body.pickup < Now
          \/ response'.arg.body.delivery <= response'.arg.body.pickup )
     => /\ ~Accepted(response')
        /\ response'.code \in {400, 403}
        /\ shipments' = shipments]_vars

\* a request with valid items and delivery on the pickup date, refused
C22_Witness ==
  /\ response.op = "createShipment"
  /\ response.arg.body.pickup = response.arg.body.delivery
  /\ response.arg.body.pickup >= Now
  /\ response.message = "Delivery date must be after pickup date"
  /\ shipments = EmptyStore

\* ------------------------------------------------------- login properties
\* (a step that leaves the clock alone and shows a login response is a login)
\* C23: after 5 consecutive failed login attempts on an admin account, every
\* further login attempt on that account made before 30 minutes have elapsed
\* since the fifth failure is rejected, even with the correct password,
\* creates no session and does not reset the failure counter.  (lastAttempt
\* is the time of the fifth failure or of a later one, so the window below
\* contains the 30 minutes that follow the fifth.)
C23_LockedOut ==
  [][\A a \in AdminIds :
       ( /\ now' = now
         /\ response'.op = "login"
         /\ response'.userType = "admin"
         /\ response'.user = a
         /\ accounts[a].loginAttempts.count >= 5
         /\ now < accounts[a].loginAttempts.lastAttempt + LockDuration )
       => /\ ~Accepted(response')
          /\ response'.code \in {401, 500}
          /\ accounts'[a].activeSessions = accounts[a].activeSessions
          /\ accounts'[a].totalLogins = accounts[a].totalLogins
          /\ accounts'[a].loginAttempts.count >= accounts[a].loginAttempts.count]_vars

\* the sixth attempt, with the correct password, a quarter of an hour after
\* the fifth failure on an active account
C23_Witness ==
  /\ accounts["a1"].status = "active"
  /\ accounts["a1"].loginAttempts.count = 5
  /\ now = accounts["a1"].loginAttempts.lastAttempt + 1
  /\ response.op = "login"
  /\ response.user = "a1"
  /\ response.arg = TRUE
  /\ response.code = 401
  /\ response.message = "Account is temporarily locked"

\* C24: a login attempt with a wrong password returns the same 'Invalid
\* credentials' response whether the addressed admin account does not exist,
\* exists and is active, is inactive, or is locked, while the failed-attempt
\* counter is incremented for an existing admin (the save of the counter
\* not failing).
C24_UniformInvalidCredentials ==
  [][( /\ now' = now
       /\ response'.op = "login"
       /\ response'.arg = FALSE
       /\ response'.code # 500 )
     => /\ response'.code = 401
        /\ response'.message = "Invalid credentials"
        /\ ( /\ response'.userType = "admin"
             /\ response'.user \in AdminIds )
           => /\ accounts'[response'.user].loginAttempts.count =
                   accounts[response'.user].loginAttempts.count + 1
              /\ accounts'[response'.user].activeSessions =
                   accounts[response'.user].activeSessions]_vars

\* a wrong password on an account that is both inactive and locked, answered
\* like one on an unknown account, and counted
C24_Witness ==
  /\ accounts["a1"].status = "inactive"
  /\ accounts["a1"].loginAttempts.count = 6
  /\ now = 0
  /\ response.op = "login"
  /\ response.user = "a1"
  /\ response.arg = FALSE
  /\ response.code = 401
  /\ response.message = "Invalid credentials"

SessionsCapped ==
  \A a \in AdminIds : Len(accounts[a].activeSessions) <= 5

OldestSessionEvicted ==
  \A a \in AdminIds :
    ( /\ now' = now
      /\ response'.op = "login"
      /\ response'.userType = "admin"
      /\ response'.user = a
      /\ Accepted(response') )
    => LET old == accounts[a].activeSessions
           new == accounts'[a].activeSessions
       IN  /\ Len(new) >= 1
           /\ Last(new).sessionId \notin {old[i].sessionId : i \in 1..Len(old)}
           /\ IF Len(old) = 5
              THEN new = Append(Tail(old), Last(new))
              ELSE new = Append(old, Last(new))

\* C25: after any sequence of admin login attempts the activeSessions list
\* has at most 5 entries, and when a successful login would make it 6 the
\* oldest entry (the first of the list) is the one removed while the 5 most
\* recent are kept in order.
C25_SessionsCapped ==
  []SessionsCapped /\ [][OldestSessionEvicted]_vars

\* the sixth successful login: the first session is gone, the others moved up
C25_Witness ==
  /\ accounts["a1"].totalLogins = 6
  /\ [i \in 1..5 |-> accounts["a1"].activeSessions[i].sessionId]
       = <<2, 3, 4, 5, 6>>
  /\ response.op = "login"
  /\ response.code = 200

\* C26 as stated: hasPermission(module, action) is true for every module and
\* action when the admin's role is super_admin, and otherwise is true exactly
\* when the admin's permissions contain an entry for that module whose
\* actions include that action.
C26_HasPermissionExact ==
  response.op = "checkPermission"
  => LET admin == response.user
         module == response.id
         action == response.arg
     IN  (response.code = 0)
         <=> \/ admin.role = "super_admin"
             \/ \E i \in 1..Len(admin.permissions) :
                  /\ admin.permissions[i].module = module
                  /\ action \in admin.permissions[i].actions

\* C27: a principal (driver, client or admin) whose status is suspended,
\* inactive or terminated can neither complete a login nor pass the route
\* guard with a previously issued token, so no request from it ever mutates a
\* shipment or payment.
C27_InactiveNeverActs ==
  [][( /\ response'.op \in {"login", "createShipment", "updateShipmentStatus",
                            "assignDriver", "createPayment",
                            "updatePaymentStatus", "refund", "partialPayment"}
       /\ Registered(response'.userType, response'.user)
       /\ UserStatus(response'.userType, response'.user)
            \in {"suspended", "inactive", "terminated"} )
     => /\ ~Accepted(response')
        /\ shipments' = shipments
        /\ payments' = payments
        /\ response'.op # "login" => response'.code \in {401, 403}
        /\ ( /\ response'.op = "login"
             /\ response'.userType = "admin" )
           => /\ accounts'[response'.user].activeSessions
                   = accounts[response'.user].activeSessions
              /\ accounts'[response'.user].totalLogins
                   = accounts[response'.user].totalLogins]_vars

\* the suspended driver reports its own shipment delivered and is refused
C27_Witness ==
  /\ drivers["d1"].status = "suspended"
  /\ shipments["s1"].driver = "d1"
  /\ shipments["s1"].status = "in_transit"
  /\ response.op = "updateShipmentStatus"
  /\ response.userType = "driver"
  /\ response.user = "d1"
  /\ response.arg = "delivered"
  /\ response.code = 401

\* ------------------------------------------------- concurrency properties
\* C28 as stated: under every interleaving of concurrent status-transition
\* requests on the same shipment, every pair of consecutive timeline entries is
\* a transition permitted by the adjacency table (so no entry follows a
\* delivered, returned or cancelled entry).
C28_TimelineIsSerial ==
  \A id \in DOMAIN shipments :
    \A i \in 1..(Len(shipments[id].timeline) - 1) :
      <<shipments[id].timeline[i].status, shipments[id].timeline[i + 1].status>>
        \in AdjacencyTable

\* C29 as stated: under every interleaving of concurrent partial-payment
\* requests on the same payment, the sum of the completed partial payments
\* never exceeds amount.total.
C29_ConcurrentPartialsWithinTotal ==
  \A id \in DOMAIN payments :
    SumCompleted(payments[id].partialPayments) <= payments[id].amount.total

\* C30 as stated: under every interleaving of concurrent assign-driver
\* requests for the same pending shipment naming different eligible drivers,
\* at most one request succeeds: the timeline contains at most one assigned
\* entry.
C30_AtMostOneAssignment ==
  \A id \in DOMAIN shipments :
    Cardinality({i \in 1..Len(shipments[id].timeline) :
                   shipments[id].timeline[i].status = "assigned"}) <= 1

\* C31 as stated: under every interleaving of concurrent create-payment
\* requests for the same shipment, at most one payment referencing that
\* shipment exists afterwards.
C31_ConcurrentCreateOnePerShipment ==
  \A shipmentId \in ShipmentIds :
    Cardinality({p \in DOMAIN payments : payments[p].shipment = shipmentId}) <= 1

\* C32 as stated: under every interleaving of concurrent wrong-password logins
\* on one admin account, once 5 of them have completed the stored counter is at
\* least 5 and the account is locked.
C32_NoIncrementLost ==
  Cardinality(LoginsAnswered) >= LockThreshold =>
    /\ accounts[ConcAdmin].loginAttempts.count >= LockThreshold
    /\ isLocked(accounts[ConcAdmin])

\* C33 as stated: a shipment has a driver if and only if its timeline has an
\* assigned entry; in particular no shipment in a status from assigned to
\* delivered is without a driver.
C33_DriverIffAssignedEntry ==
  \A id \in DOMAIN shipments :
    /\ shipments[id].driver # Null <=>
         \E i \in 1..Len(shipments[id].timeline) :
           shipments[id].timeline[i].status = "assigned"
    /\ shipments[id].status \in
         {"assigned", "picked", "packed", "processing", "in_transit",
          "out_for_delivery", "delivered"} => shipments[id].driver # Null

\* C34 as stated: after any sequence of refunds and payment status updates, the
\* amounts of all entries of a payment's refunds list, whatever their refund
\* status, sum to at most amount.total.
C34_AllRefundsWithinTotal ==
  \A id \in DOMAIN payments :
    SumAmounts(payments[id].refunds) <= payments[id].amount.total

\* C35: the partial-payment operation checks the remaining balance and not the
\* status: on a payment in status cancelled, failed, refunded or
\* partially_refunded (as in any status but completed) a partial payment of at
\* most remainingBalance is accepted and moves the status to processing, or to
\* completed with paidDate set when it covers the balance; in status completed
\* every partial payment is rejected and the payment is left as it was.
C35_PartialPaymentIgnoresStatus ==
  [][\A id \in DOMAIN payments :
       ( /\ response'.op = "partialPayment"
         /\ response'.id = id
         /\ response'.userType = "admin"
         /\ hasPermission(response'.user, "payments", "update")
         /\ response'.code # 500 )
       => LET amount == response'.arg
              balance == remainingBalance(payments[id])
          IN  /\ ( /\ payments[id].status # "completed"
                   /\ amount >= MinAmount
                   /\ amount <= balance )
                 => /\ Accepted(response')
                    /\ IF amount >= balance
                       THEN /\ payments'[id].status = "completed"
                            /\ payments'[id].paidDate # 0
                       ELSE payments'[id].status = "processing"
              /\ payments[id].status = "completed"
                 => /\ ~Accepted(response')
                    /\ payments'[id] = payments[id]]_vars

\* the scenario: a cancelled payment takes a partial payment and is processing
C35_Witness ==
  \E id \in DOMAIN payments :
    /\ Len(payments[id].timeline) >= 2
    /\ payments[id].timeline[Len(payments[id].timeline) - 1].status = "cancelled"
    /\ payments[id].status = "processing"
    /\ payments[id].partialPayments # <<>>
    /\ response.op = "partialPayment"
    /\ response.id = id
    /\ response.code = 200

\* C36 as stated: a driver's kycStatus changes to or away from approved only
\* through the admin KYC review, issued by an admin who holds drivers/approve;
\* no request of the driver itself changes whether kycStatus is approved, and
\* so none changes whether the assign route finds the driver eligible.
C36_KycApprovalOnlyByReview ==
  [][\A d \in DriverIds :
       /\ (drivers'[d].kycStatus = "approved") # (drivers[d].kycStatus = "approved")
          => /\ response'.op = "reviewKyc"
             /\ response'.userType = "admin"
             /\ hasPermission(response'.user, "drivers", "approve")
       /\ (response'.userType = "driver" /\ response'.user = d)
          => DriverEligible(drivers'[d]) = DriverEligible(drivers[d])]_vars

\* the positions of a status in a timeline
Occurrences(timeline, status) ==
  {i \in 1..Len(timeline) : timeline[i].status = status}

\* C37: after any sequence of requests issued one at a time, every delivered
\* shipment has a timeline with a pending entry, then an assigned entry, then a
\* picked entry, then the delivered entry, and has actualPickupDate and
\* actualDeliveryDate set.
C37_DeliveredWentThroughPickup ==
  \A id \in DOMAIN shipments :
    shipments[id].status = "delivered" =>
      LET timeline == shipments[id].timeline
      IN  /\ \E i \in Occurrences(timeline, "pending") :
             \E j \in Occurrences(timeline, "assigned") :
             \E k \in Occurrences(timeline, "picked") :
             \E n \in Occurrences(timeline, "delivered") :
               i < j /\ j < k /\ k < n
          /\ shipments[id].actualPickupDate # 0
          /\ shipments[id].actualDeliveryDate # 0

\* the scenario: a shipment delivered by way of packing
C37_Witness ==
  \E id \in DOMAIN shipments :
    /\ shipments[id].timeline =
         << [status |-> "pending"], [status |-> "assigned"],
            [status |-> "picked"], [status |-> "packed"],
            [status |-> "in_transit"], [status |-> "delivered"] >>
    /\ shipments[id].status = "delivered"
    /\ shipments[id].actualPickupDate # 0
    /\ shipments[id].actualDeliveryDate # 0
    /\ response.op = "updateShipmentStatus"
    /\ response.arg = "delivered"
    /\ response.code = 200

EarlyStatusesOnce ==
  \A id \in DOMAIN shipments :
    \A status \in {"pending", "assigned", "picked", "packed"} :
      Cardinality(Occurrences(shipments[id].timeline, status)) <= 1

\* a permitted admin's request along the failed -> processing -> failed cycle is
\* accepted (the store permitting) whatever the length of the timeline
FailedCycleOpen ==
  \A id \in DOMAIN shipments :
    ( /\ response'.op = "updateShipmentStatus"
      /\ response'.id = id
      /\ response'.userType = "admin"
      /\ response'.code # 500
      /\ \/ shipments[id].status = "failed" /\ response'.arg = "processing"
         \/ shipments[id].status = "processing" /\ response'.arg = "failed" )
    => /\ Accepted(response')
       /\ shipments'[id].timeline =
            Append(shipments[id].timeline, [status |-> response'.arg])

====
